---- MODULE Spec2Model ----
(***************************************************************************)
(* TCAD Tcl command generator (script_v22_modified.py).                    *)
(*                                                                         *)
(* A Python str is modelled as the sequence of its characters (a tuple of  *)
(* one-character strings), so that concatenation, zfill, strip, split,     *)
(* lower/upper and replace are computed as Python computes them.           *)
(* A generated command line is a record: `op' is the command word with its *)
(* fixed option names, the other fields are the texts the f-string of the  *)
(* source interpolates, in the order of the source.                        *)
(***************************************************************************)
EXTENDS Integers, Sequences, FiniteSets, TLC

(***************************************************************************)
(* Python str operations                                                   *)
(***************************************************************************)
UpperCase == <<"A","B","C","D","E","F","G","H","I","J","K","L","M",
               "N","O","P","Q","R","S","T","U","V","W","X","Y","Z">>
LowerCase == <<"a","b","c","d","e","f","g","h","i","j","k","l","m",
               "n","o","p","q","r","s","t","u","v","w","x","y","z">>
Digits == <<"0","1","2","3","4","5","6","7","8","9">>
Whitespace == {" ", "\t", "\n", "\r"}

Range(f) == {f[i] : i \in DOMAIN f}

LowerChar(c) ==
  IF \E i \in 1..26 : UpperCase[i] = c
  THEN LowerCase[CHOOSE i \in 1..26 : UpperCase[i] = c] ELSE c

UpperChar(c) ==
  IF \E i \in 1..26 : LowerCase[i] = c
  THEN UpperCase[CHOOSE i \in 1..26 : LowerCase[i] = c] ELSE c

\* str.lower()
Lower(s) == [i \in 1..Len(s) |-> LowerChar(s[i])]

\* str.upper()
Upper(s) == [i \in 1..Len(s) |-> UpperChar(s[i])]

\* str.endswith(suffix)
EndsWith(s, suffix) ==
  /\ Len(suffix) <= Len(s)
  /\ SubSeq(s, Len(s) - Len(suffix) + 1, Len(s)) = suffix

\* str.startswith(prefix)
StartsWith(s, prefix) ==
  /\ Len(prefix) <= Len(s)
  /\ SubSeq(s, 1, Len(prefix)) = prefix

RECURSIVE LStrip(_)
LStrip(s) ==
  IF s # <<>> /\ Head(s) \in Whitespace THEN LStrip(Tail(s)) ELSE s

RECURSIVE RStrip(_)
RStrip(s) ==
  IF s # <<>> /\ s[Len(s)] \in Whitespace
  THEN RStrip(SubSeq(s, 1, Len(s) - 1)) ELSE s

\* str.strip()
Strip(s) == RStrip(LStrip(s))

\* str.split(sep) for a one-character separator: every piece, empty ones too
RECURSIVE SplitFrom(_, _, _)
SplitFrom(s, sep, cur) ==
  LET hits == {i \in 1..Len(s) : s[i] = sep}
      first == CHOOSE i \in hits : \A j \in hits : i <= j
  IN  IF hits = {} THEN <<cur \o s>>
      ELSE <<cur \o SubSeq(s, 1, first - 1)>>
           \o SplitFrom(SubSeq(s, first + 1, Len(s)), sep, <<>>)

Split(s, sep) == SplitFrom(s, sep, <<>>)

\* sep.join(parts)
RECURSIVE Join(_, _)
Join(parts, sep) ==
  IF parts = <<>> THEN <<>>
  ELSE IF Len(parts) = 1 THEN parts[1]
  ELSE parts[1] \o sep \o Join(Tail(parts), sep)

\* str.replace(old, new): every non-overlapping occurrence, left to right
RECURSIVE Replace(_, _, _)
Replace(s, old, new) ==
  LET hits == {i \in 1..Len(s) : StartsWith(SubSeq(s, i, Len(s)), old)}
      first == CHOOSE i \in hits : \A j \in hits : i <= j
  IN  IF old = <<>> \/ hits = {} THEN s
      ELSE SubSeq(s, 1, first - 1) \o new
           \o Replace(SubSeq(s, first + Len(old), Len(s)), old, new)

\* str.zfill(width): zeros on the left, after a leading sign
Zfill(s, width) ==
  LET pad == [i \in 1..(width - Len(s)) |-> "0"]
  IN  IF Len(s) >= width THEN s
      ELSE IF s # <<>> /\ Head(s) \in {"+", "-"}
      THEN <<Head(s)>> \o pad \o Tail(s)
      ELSE pad \o s

\* str(n) of a natural number
RECURSIVE Str(_)
Str(n) ==
  IF n < 10 THEN <<Digits[n + 1]>>
  ELSE Str(n \div 10) \o <<Digits[(n % 10) + 1]>>

IsDigits(s) == s # <<>> /\ \A i \in 1..Len(s) : s[i] \in Range(Digits)

DigitValue(c) == (CHOOSE i \in 1..10 : Digits[i] = c) - 1

RECURSIVE DigitsValue(_)
DigitsValue(s) ==
  IF s = <<>> THEN 0
  ELSE 10 * DigitsValue(SubSeq(s, 1, Len(s) - 1)) + DigitValue(s[Len(s)])

\* int(s): surrounding whitespace and one sign are accepted; anything else
\* that is not a run of decimal digits raises ValueError
IntBody(s) ==
  LET t == Strip(s)
  IN  IF t # <<>> /\ Head(t) \in {"+", "-"} THEN Tail(t) ELSE t

IntRaises(s) == ~IsDigits(IntBody(s))

IntValue(s) ==
  LET t == Strip(s)
      v == DigitsValue(IntBody(s))
  IN  IF t # <<>> /\ Head(t) = "-" THEN 0 - v ELSE v

\* range(n) has this many elements
RangeLen(n) == IF n < 0 THEN 0 ELSE n

(***************************************************************************)
(* Literal texts of the source                                             *)
(***************************************************************************)
s_Plot_ == <<"P","l","o","t","_">>
s_des == <<"_","d","e","s">>
s_des_tdr == <<"_","d","e","s",".","t","d","r">>
s_des_plt == <<"_","d","e","s",".","p","l","t">>
s_C1open == <<"C","1","(">>
s_S == <<"_","S">>
s_set == <<"_","s","e","t">>
s_param_ == <<"_","p","a","r","a","m","_">>
s_param == <<"_","p","a","r","a","m">>
s_csv == <<".","c","s","v">>
s_Curve_ == <<"C","u","r","v","e","_">>
s_Plot_1 == <<"P","l","o","t","_","1">>
s_time == <<"t","i","m","e">>
s_drain == <<"{","d","r","a","i","n"," ","O","u","t","e","r","V","o","l","t","a","g","e","}">>
s_drain_ == <<"d","r","a","i","n"," ","O","u","t","e","r","V","o","l","t","a","g","e","_">>
s_Tmax == <<"T","m","a","x">>
s_yes == <<"y","e","s">>
s_no == <<"n","o">>
s_log == <<"l","o","g">>
s_linear == <<"l","i","n","e","a","r">>
s_dash == <<"d","a","s","h">>
s_range == <<"-","0",".","9"," ","9",".","0">>
s_origin == <<"0"," ","0">>
s_width == <<"2">>

\* the parameters list of lines 67-75 and 470-478
parameters ==
  << <<"C","o","n","d","u","c","t","i","o","n","B","a","n","d","E","n","e","r","g","y">>,
     <<"C","o","n","d","u","c","t","i","o","n","C","u","r","r","e","n","t","D","e","n","s","i","t","y">>,
     <<"D","o","p","i","n","g","C","o","n","c","e","n","t","r","a","t","i","o","n">>,
     <<"E","f","f","e","c","t","i","v","e","I","n","t","r","i","n","s","i","c","D","e","n","s","i","t","y">>,
     <<"E","l","e","c","t","r","i","c","F","i","e","l","d">>,
     <<"E","l","e","c","t","r","o","s","t","a","t","i","c","P","o","t","e","n","t","i","a","l">>,
     <<"E","q","u","i","l","i","b","r","i","u","m","P","o","t","e","n","t","i","a","l">>,
     <<"I","m","p","a","c","t","i","o","n","i","z","a","t","i","o","n">>,
     <<"I","n","t","r","i","n","s","i","c","D","e","n","s","i","t","y">>,
     <<"L","a","t","t","i","c","e","T","e","m","p","e","r","a","t","u","r","e">>,
     <<"Q","u","a","s","i","F","e","r","m","i","P","o","t","e","n","t","i","a","l">>,
     <<"S","p","a","c","e","C","h","a","r","g","e">>,
     <<"V","a","l","e","n","c","e","B","a","n","d","E","n","e","r","g","y">>,
     <<"e","A","l","p","h","a","A","v","a","l","a","n","c","h","e">>,
     <<"e","C","u","r","r","e","n","t","D","e","n","s","i","t","y">>,
     <<"e","D","e","n","s","i","t","y">>,
     <<"e","M","o","b","i","l","i","t","y">>,
     <<"e","Q","u","a","s","i","F","e","r","m","i","P","o","t","e","n","t","i","a","l">>,
     <<"h","A","l","p","h","a","A","v","a","l","a","n","c","h","e">>,
     <<"h","C","u","r","r","e","n","t","D","e","n","s","i","t","y">>,
     <<"h","D","e","n","s","i","t","y">>,
     <<"h","M","o","b","i","l","i","t","y">>,
     <<"h","Q","u","a","s","i","F","e","r","m","i","P","o","t","e","n","t","i","a","l">> >>

\* the colors list of line 384
colors ==
  << <<"#","f","f","0","0","0","0">>,
     <<"#","0","0","f","f","0","0">>,
     <<"#","0","0","0","0","f","f">>,
     <<"#","f","f","8","0","0","0">>,
     <<"#","8","0","0","0","8","0">>,
     <<"#","0","0","8","0","8","0">> >>

(***************************************************************************)
(* Naming utility, lines 17-32                                             *)
(***************************************************************************)
\* only the cutplane axis removed from all_axes
get_axis_mapping_cutplane_only(cutplane_axis, cutline_axis) ==
  {<<"X">>, <<"Y">>, <<"Z">>} \ {Upper(cutplane_axis)}

\* all_axes - removed_axes: list(...)[0] takes one element of this set, and
\* the iteration order of a set of str is not fixed by the language
get_axis_mapping(cutplane_axis, cutline_axis) ==
  {<<"X">>, <<"Y">>, <<"Z">>} \ {Upper(cutplane_axis), Upper(cutline_axis)}

format_tdr_code(user_input) == <<"0","0">> \o Zfill(user_input, 2)

parse_parameters(param_string) ==
  LET pieces == Split(param_string, ",")
  IN  SelectSeq([i \in 1..Len(pieces) |-> Strip(pieces[i])],
                LAMBDA p : p # <<>>)

\* a path gets a trailing "/" unless it has one (lines 61-62, 130-131, ...)
WithSlash(path) == IF EndsWith(path, <<"/">>) THEN path ELSE path \o <<"/">>

\* x in ['yes', 'y']
IsYes(answer) == answer \in {s_yes, <<"y">>}

\* y_axis_type of lines 125-127 and 549-551
YAxisType(typed) ==
  LET t == IF Lower(typed) = <<>> THEN s_log ELSE Lower(typed)
  IN  IF t \notin {s_linear, s_log} THEN s_log ELSE t

\* the validation looking at the first name only
invalid_params_first_only(param_list) ==
  IF param_list # <<>> /\ param_list[1] \notin Range(parameters)
  THEN <<param_list[1]>> ELSE <<>>

\* invalid_params of lines 108 and 532
invalid_params(param_list) ==
  SelectSeq(param_list, LAMBDA p : p \notin Range(parameters))

s_console == <<"S","e","n","t","a","u","r","u","s"," ","V","i","s","u","a","l"," ","C","o","n","s","o","l","e"," ","-"," ","T","c","l"," ","v","e","r","s","i","o","n"," ","8",".","6",".","6"," ","#">>
s_set_open == <<"-","-","-"," ","S","e","t"," ">>
s_parameter_ == <<","," ","P","a","r","a","m","e","t","e","r",":"," ">>
s_dashes == <<" ","-","-","-">>

(***************************************************************************)
(* State                                                                   *)
(***************************************************************************)
VARIABLES
  pc,                    \* the input() call or statement the program is at
  mode,                  \* run_single_workflow: the mode typed at line 709
  loc,                   \* the locals of the running generator
  commands,              \* run_single_workflow: what the generator returned
  raised,                \* the exception that left the generator, or "none"
  curve_counter,         \* generate_mode1_commands: curve_counter
  set_parameter_counter, \* generate_mode3_commands: set_parameter_counter
  workflows,             \* main: workflows started so far
  env,                   \* what the user may type at each prompt
  inputs,                \* history: the texts typed in this generator invocation
  rejected,              \* history: set entries typed with a name outside the list
  malformed,             \* history: a count or TDR code typed that is no number
  remembered             \* history: one earlier invocation, its inputs and result

vars == <<pc, mode, loc, commands, raised, curve_counter, set_parameter_counter,
          workflows, env, inputs, rejected, malformed, remembered>>

history == <<inputs, rejected, malformed>>

num_nodes == loc.num_nodes
node_names == loc.node_names
no_of_tdrs == loc.no_of_tdrs
tdr_codes == loc.tdr_codes
need_last_tdr == loc.need_last_tdr
base_path == loc.base_path
current_value == loc.current_value
cutplane_cutline_sets == loc.cutplane_cutline_sets
cutplane_axis == loc.cutplane_axis
cutplane_position == loc.cutplane_position
cutline_axis == loc.cutline_axis
cutline_positions == loc.cutline_positions
y_axis_type == loc.y_axis_type
csv_export_path == loc.csv_export_path
csv_filename == loc.csv_filename
plt_prefix == loc.plt_prefix
nodes_data == loc.nodes_data

\* the locals of a generator before its first assignment
NoLocals ==
  [ num_nodes |-> 0, node_names |-> <<>>, no_of_tdrs |-> 0, tdr_codes |-> <<>>,
    need_last_tdr |-> <<>>, base_path |-> <<>>, current_value |-> <<>>,
    file_prefix |-> <<>>, plt_prefix |-> <<>>, nodes_data |-> <<>>,
    version |-> <<>>, cutplane_cutline_sets |-> <<>>, cutplane_axis |-> <<>>,
    cutplane_position |-> <<>>, cutline_axis |-> <<>>,
    cutline_positions |-> <<>>, y_axis_type |-> <<>>,
    csv_export_path |-> <<>>, csv_filename |-> <<>>, plot_title |-> <<>>,
    x_axis_title |-> <<>>, y_axis_title |-> <<>>, y2_axis_title |-> <<>>,
    legend_x |-> <<>>, legend_y |-> <<>>, png_export_path |-> <<>> ]

(***************************************************************************)
(* Command lines                                                           *)
(***************************************************************************)
Blank == [op |-> ""]
Banner == [op |-> "################################################"]
Comment(text) == [op |-> "#", text |-> text]
LoadFileFod(file) == [op |-> "load_file -fod", file |-> file]
LoadFile(file) == [op |-> "load_file", file |-> file]
CreatePlot(dataset) == [op |-> "create_plot -dataset", dataset |-> dataset]
CreatePlotRef(dataset, ref_plot) ==
  [op |-> "create_plot -dataset -ref_plot", dataset |-> dataset, ref_plot |-> ref_plot]
CreatePlot1d(dataset) == [op |-> "create_plot -dataset -1d", dataset |-> dataset]
CreateEmptyPlot1d == [op |-> "create_plot -1d"]
SelectPlots(plots) == [op |-> "select_plots", plots |-> plots]
LinkPlots(plots) == [op |-> "link_plots", plots |-> plots]
SetFieldProp(field, plot, geom) ==
  [op |-> "set_field_prop -show_bands", field |-> field, plot |-> plot, geom |-> geom]
CreateCutplane(plot, type, at) ==
  [op |-> "create_cutplane", plot |-> plot, type |-> type, at |-> at]
CreateCutline(plot, type, at) ==
  [op |-> "create_cutline", plot |-> plot, type |-> type, at |-> at]
CreateCurve(axisX, axisY, dataset, plot) ==
  [op |-> "create_curve -axisY", axisX |-> axisX, axisY |-> axisY,
   dataset |-> dataset, plot |-> plot]
CreateCurveY2(axisX, axisY2, dataset, plot) ==
  [op |-> "create_curve -axisY2", axisX |-> axisX, axisY |-> axisY2,
   dataset |-> dataset, plot |-> plot]
SetAxisType(plot, axis, type) ==
  [op |-> "set_axis_prop -type", plot |-> plot, axis |-> axis, value |-> type]
SetAxisRange(plot, axis, range) ==
  [op |-> "set_axis_prop -range", plot |-> plot, axis |-> axis, value |-> range]
SetAxisTitle(plot, axis, title) ==
  [op |-> "set_axis_prop -title", plot |-> plot, axis |-> axis, value |-> title]
ExportCurves(curves, plot, filename) ==
  [op |-> "export_curves -format csv", curves |-> curves, plot |-> plot,
   filename |-> filename]
SetCurveProp(curve, plot, prop, value) ==
  [op |-> "set_curve_prop", curve |-> curve, plot |-> plot, prop |-> prop,
   value |-> value]
SetPlotProp(plot, prop, value) ==
  [op |-> "set_plot_prop", plot |-> plot, prop |-> prop, value |-> value]
SetLegendPosition(plot, x, y) ==
  [op |-> "set_legend_prop -position", plot |-> plot, x |-> x, y |-> y]
\* the export of the view left out: only the comment after it is written
ExportViewLeftOut(file) == Comment(<<"0">>)

ExportView(file) == [op |-> "export_view -format png", file |-> file]
MovePlot(plot, position) == [op |-> "move_plot -position", plot |-> plot, value |-> position]

\* the text of a command line, as the f-strings of the source write it
Render(line) ==
  CASE line.op = "#" ->
         <<"#"," ">> \o line.text
    [] line.op = "load_file -fod" ->
         <<"l","o","a","d","_","f","i","l","e"," ">> \o line.file \o <<" ","-","f","o","d">>
    [] line.op = "load_file" ->
         <<"l","o","a","d","_","f","i","l","e"," ">> \o line.file
    [] line.op = "create_plot -dataset" ->
         <<"c","r","e","a","t","e","_","p","l","o","t"," ","-","d","a","t","a","s","e","t"," ">> \o line.dataset
    [] line.op = "create_plot -dataset -ref_plot" ->
         <<"c","r","e","a","t","e","_","p","l","o","t"," ","-","d","a","t","a","s","e","t"," ">> \o line.dataset \o <<" ","-","r","e","f","_","p","l","o","t"," ">> \o line.ref_plot
    [] line.op = "create_plot -dataset -1d" ->
         <<"c","r","e","a","t","e","_","p","l","o","t"," ","-","d","a","t","a","s","e","t"," ">> \o line.dataset \o <<" ","-","1","d">>
    [] line.op = "create_plot -1d" ->
         <<"c","r","e","a","t","e","_","p","l","o","t"," ","-","1","d">>
    [] line.op = "select_plots" ->
         <<"s","e","l","e","c","t","_","p","l","o","t","s"," ","{">> \o line.plots \o <<"}">>
    [] line.op = "link_plots" ->
         <<"l","i","n","k","_","p","l","o","t","s"," ","{">> \o line.plots \o <<"}">>
    [] line.op = "set_field_prop -show_bands" ->
         <<"s","e","t","_","f","i","e","l","d","_","p","r","o","p"," ">> \o line.field \o <<" ","-","p","l","o","t"," ">> \o line.plot \o <<" ","-","g","e","o","m"," ">> \o line.geom \o <<" ","-","s","h","o","w","_","b","a","n","d","s">>
    [] line.op = "create_cutplane" ->
         <<"c","r","e","a","t","e","_","c","u","t","p","l","a","n","e"," ","-","p","l","o","t"," ">> \o line.plot \o <<" ","-","t","y","p","e"," ">> \o line.type \o <<" ","-","a","t"," ">> \o line.at
    [] line.op = "create_cutline" ->
         <<"c","r","e","a","t","e","_","c","u","t","l","i","n","e"," ","-","p","l","o","t"," ">> \o line.plot \o <<" ","-","t","y","p","e"," ">> \o line.type \o <<" ","-","a","t"," ">> \o line.at
    [] line.op = "create_curve -axisY" ->
         <<"c","r","e","a","t","e","_","c","u","r","v","e"," ","-","a","x","i","s","X"," ">> \o line.axisX \o <<" ","-","a","x","i","s","Y"," ">> \o line.axisY \o <<" ","-","d","a","t","a","s","e","t"," ","{">> \o line.dataset \o <<"}"," ","-","p","l","o","t"," ">> \o line.plot
    [] line.op = "create_curve -axisY2" ->
         <<"c","r","e","a","t","e","_","c","u","r","v","e"," ","-","a","x","i","s","X"," ">> \o line.axisX \o <<" ","-","a","x","i","s","Y","2"," ">> \o line.axisY \o <<" ","-","d","a","t","a","s","e","t"," ","{">> \o line.dataset \o <<"}"," ","-","p","l","o","t"," ">> \o line.plot
    [] line.op = "set_axis_prop -type" ->
         <<"s","e","t","_","a","x","i","s","_","p","r","o","p"," ","-","p","l","o","t"," ">> \o line.plot \o <<" ","-","a","x","i","s"," ">> \o line.axis \o <<" ","-","t","y","p","e"," ">> \o line.value
    [] line.op = "set_axis_prop -range" ->
         <<"s","e","t","_","a","x","i","s","_","p","r","o","p"," ","-","p","l","o","t"," ">> \o line.plot \o <<" ","-","a","x","i","s"," ">> \o line.axis \o <<" ","-","r","a","n","g","e"," ","{">> \o line.value \o <<"}">>
    [] line.op = "set_axis_prop -title" ->
         <<"s","e","t","_","a","x","i","s","_","p","r","o","p"," ","-","p","l","o","t"," ">> \o line.plot \o <<" ","-","a","x","i","s"," ">> \o line.axis \o <<" ","-","t","i","t","l","e"," ","\"">> \o line.value \o <<"\"">>
    [] line.op = "export_curves -format csv" ->
         <<"e","x","p","o","r","t","_","c","u","r","v","e","s"," ","{">> \o line.curves \o <<"}"," ","-","p","l","o","t"," ">> \o line.plot \o <<" ","-","f","i","l","e","n","a","m","e"," ">> \o line.filename \o <<" ","-","f","o","r","m","a","t"," ","c","s","v">>
    [] line.op = "set_legend_prop -position" ->
         <<"s","e","t","_","l","e","g","e","n","d","_","p","r","o","p"," ","-","p","l","o","t"," ">> \o line.plot \o <<" ","-","p","o","s","i","t","i","o","n"," ","{">> \o line.x \o <<" ">> \o line.y \o <<"}">>
    [] line.op = "export_view -format png" ->
         <<"e","x","p","o","r","t","_","v","i","e","w"," ","{">> \o line.file \o <<"}"," ","-","f","o","r","m","a","t"," ","p","n","g">>
    [] line.op = "move_plot -position" ->
         <<"m","o","v","e","_","p","l","o","t"," ","-","p","l","o","t"," ">> \o line.plot \o <<" ","-","p","o","s","i","t","i","o","n"," ","{">> \o line.value \o <<"}">>
    [] line.op = "set_curve_prop" /\ line.prop = "-line_style" ->
         <<"s","e","t","_","c","u","r","v","e","_","p","r","o","p"," ","{">> \o line.curve \o <<"}"," ","-","p","l","o","t"," ">> \o line.plot \o <<" ","-","l","i","n","e","_","s","t","y","l","e"," ">> \o line.value
    [] line.op = "set_curve_prop" /\ line.prop = "-line_width" ->
         <<"s","e","t","_","c","u","r","v","e","_","p","r","o","p"," ","{">> \o line.curve \o <<"}"," ","-","p","l","o","t"," ">> \o line.plot \o <<" ","-","l","i","n","e","_","w","i","d","t","h"," ">> \o line.value
    [] line.op = "set_curve_prop" /\ line.prop = "-color" ->
         <<"s","e","t","_","c","u","r","v","e","_","p","r","o","p"," ","{">> \o line.curve \o <<"}"," ","-","p","l","o","t"," ">> \o line.plot \o <<" ","-","c","o","l","o","r"," ">> \o line.value
    [] line.op = "set_curve_prop" /\ line.prop = "-hide_legend" ->
         <<"s","e","t","_","c","u","r","v","e","_","p","r","o","p"," ","{">> \o line.curve \o <<"}"," ","-","p","l","o","t"," ">> \o line.plot \o <<" ","-","h","i","d","e","_","l","e","g","e","n","d">>
    [] line.op = "set_curve_prop" /\ line.prop = "-label" ->
         <<"s","e","t","_","c","u","r","v","e","_","p","r","o","p"," ","{">> \o line.curve \o <<"}"," ","-","p","l","o","t"," ">> \o line.plot \o <<" ","-","l","a","b","e","l"," ","\"">> \o line.value \o <<"\"">>
    [] line.op = "set_plot_prop" /\ line.prop = "-title" ->
         <<"s","e","t","_","p","l","o","t","_","p","r","o","p"," ","-","p","l","o","t"," ","{">> \o line.plot \o <<"}"," ","-","t","i","t","l","e"," ","\"">> \o line.value \o <<"\"">>
    [] line.op = "set_plot_prop" /\ line.prop = "-frame_width" ->
         <<"s","e","t","_","p","l","o","t","_","p","r","o","p"," ","-","p","l","o","t"," ","{">> \o line.plot \o <<"}"," ","-","f","r","a","m","e","_","w","i","d","t","h"," ">> \o line.value
    [] line.op = "################################################" ->
         [i \in 1..48 |-> "#"]
    [] OTHER -> <<>>

RECURSIVE Flatten(_)
Flatten(groups) ==
  IF groups = <<>> THEN <<>> ELSE Head(groups) \o Flatten(Tail(groups))

\* the four header lines of lines 136-141 and 338-343
Header == <<Banner, Comment(s_console), Banner, Comment(<<>>)>>

(***************************************************************************)
(* Names derived from a file base                                          *)
(***************************************************************************)
\* f"{current_value}_{parameter}_{code}", lines 161, 177, 585
FileBase(parameter, code) ==
  current_value \o <<"_">> \o parameter \o <<"_">> \o code

DsetOf(file_base) == file_base \o s_des
PlotOf(file_base) == s_Plot_ \o file_base \o s_des
\* f"C{k}({file_base}_des)", lines 220, 225, 625, 630
CutplaneDset(k, file_base) ==
  <<"C">> \o Str(k) \o <<"(">> \o file_base \o s_des \o <<")">>
\* f"C1(C{k}({file_base}_des))", lines 241, 246, 258, 646, 652, 662
CutlineDset(k, file_base) == s_C1open \o CutplaneDset(k, file_base) \o <<")">>

\* the load group of lines 163-172, 179-188 and 585-594
LoadGroup(file_base) ==
  LET fname == file_base \o s_des_tdr
      dset == file_base \o s_des
      plot == s_Plot_ \o dset
  IN  << LoadFileFod(base_path \o fname), CreatePlot(dset), SelectPlots(plot),
         Comment(plot), Blank, Comment(plot), Blank, Comment(dset) >>

(***************************************************************************)
(* Mode 1, lines 135-280                                                   *)
(***************************************************************************)
\* the cutlines written before the plots of the cutplanes they are drawn in
RunOrderCutlinesFirst(loads, linking, field, cutplanes, plots, cutlines, plot1d, curves, export) ==
  loads \o linking \o field \o cutplanes \o cutlines \o plots \o plot1d \o curves
  \o export

\* the order of the blocks of one (set, parameter) run: lines 158-278 and
\* 583-680
RunOrder(loads, linking, field, cutplanes, plots, cutlines, plot1d, curves, export) ==
  loads \o linking \o field \o cutplanes \o plots \o cutlines \o plot1d \o curves
  \o export

\* the node name written into the file base
RECURSIVE CrossBasesNamingNode(_, _)
CrossBasesNamingNode(nodes, parameter) ==
  IF nodes = <<>> THEN <<>>
  ELSE [i \in 1..Len(tdr_codes) |->
          FileBase(parameter, tdr_codes[i]) \o <<"_">> \o Head(nodes)]
       \o CrossBasesNamingNode(Tail(nodes), parameter)

\* lines 159-162: one file base per (node, code), nodes outermost
RECURSIVE CrossBases(_, _)
CrossBases(nodes, parameter) ==
  IF nodes = <<>> THEN <<>>
  ELSE [i \in 1..Len(tdr_codes) |-> FileBase(parameter, tdr_codes[i])]
       \o CrossBases(Tail(nodes), parameter)

\* line 176: node_names[0].split('_')[0]
last_prefix == Split(node_names[1], "_")[1]

\* the synthetic entry appended whatever was answered at line 56
file_bases_always_last(parameter) ==
  CrossBases(node_names, parameter) \o <<FileBase(parameter, last_prefix)>>

\* lines 158-178: file_bases_for_param when the loads are done
file_bases_for_param(parameter) ==
  CrossBases(node_names, parameter)
  \o (IF IsYes(need_last_tdr) THEN <<FileBase(parameter, last_prefix)>> ELSE <<>>)

\* line 236: cl_positions[i % len(cl_positions)] for the 0-based index i
M1CutlineIndex(i, n) == (i % n) + 1

\* the exception that leaves a Mode 1 run, or "none": node_names[0] at line
\* 176, file_bases_for_param[0] at line 191, i % len(cl_positions) at line 236
M1RunRaises(cutset) ==
  IF IsYes(need_last_tdr) /\ node_names = <<>> THEN "IndexError"
  ELSE IF Len(node_names) * Len(tdr_codes) = 0 /\ ~IsYes(need_last_tdr)
  THEN "IndexError"
  ELSE IF Len(cutset.cutline_positions) = 0 THEN "ZeroDivisionError"
  ELSE "none"

\* line 245
M1UnifiedPlot(set_idx, param_idx, file_base) ==
  s_Plot_ \o CutlineDset(set_idx, file_base)
  \o s_S \o Str(set_idx) \o <<"P">> \o Str(param_idx)

\* curve_counter kept from the invocation before
M1FirstCurveCarriedOver == IF curve_counter = 0 THEN 1 ELSE curve_counter

\* line 145
M1FirstCurve == 1

\* lines 156-278 for one (set, parameter): the commands added, and
\* curve_counter afterwards; param_idx counts from 0 as enumerate does
M1Run(set_idx, param_idx, axis_x, counter) ==
  LET cutset == cutplane_cutline_sets[set_idx]
      parameter == cutset.parameters[param_idx + 1]
      cp_axis == cutset.cutplane_axis
      cp_pos == cutset.cutplane_position
      cl_axis == cutset.cutline_axis
      cl_positions == cutset.cutline_positions
      fbs == file_bases_for_param(parameter)
      K == Len(fbs)
      first_plot == s_Plot_ \o fbs[1] \o s_des
      all_plots_for_param == [i \in 1..K |-> s_Plot_ \o fbs[i] \o s_des]
      all_plots_str == Join(all_plots_for_param, <<" ">>)
      last_plot == all_plots_for_param[K]
      last_dset == Replace(last_plot, s_Plot_, <<>>)
      unified_1d_plot == M1UnifiedPlot(set_idx, param_idx, fbs[1])
      first_cl_dset == CutlineDset(set_idx, fbs[1])
      curves_for_this_plot == [i \in 1..K |-> s_Curve_ \o Str(counter + i - 1)]
      curve_names == Join(curves_for_this_plot, <<" ">>)
      csv_full_path == csv_export_path \o csv_filename \o s_set \o Str(set_idx)
                       \o s_param_ \o parameter \o s_csv
  IN [ cmds |-> RunOrder(
         Flatten([i \in 1..K |-> LoadGroup(fbs[i])])
         ,  << SelectPlots(first_plot), Comment(first_plot),
               SelectPlots(all_plots_str), Comment(all_plots_str),
               LinkPlots(all_plots_str), Comment(<<"1">>) >>
         ,  << SetFieldProp(parameter, last_plot, last_dset), Comment(<<"0">>) >>
         ,  Flatten([i \in 1..K |->
              << SelectPlots(PlotOf(fbs[i])), Comment(PlotOf(fbs[i])),
                 CreateCutplane(PlotOf(fbs[i]), cp_axis, cp_pos),
                 Comment(CutplaneDset(set_idx, fbs[i])) >>])
         ,  Flatten([i \in 1..K |->
              << CreatePlotRef(CutplaneDset(set_idx, fbs[i]), PlotOf(fbs[i])),
                 SelectPlots(s_Plot_ \o CutplaneDset(set_idx, fbs[i])),
                 Comment(s_Plot_ \o CutplaneDset(set_idx, fbs[i])), Blank,
                 Comment(s_Plot_ \o CutplaneDset(set_idx, fbs[i])) >>])
         ,  Flatten([i \in 1..K |->
              << SelectPlots(s_Plot_ \o CutplaneDset(set_idx, fbs[i])),
                 Comment(s_Plot_ \o CutplaneDset(set_idx, fbs[i])),
                 CreateCutline(s_Plot_ \o CutplaneDset(set_idx, fbs[i]), cl_axis,
                               cl_positions[M1CutlineIndex(i - 1, Len(cl_positions))]),
                 Comment(CutlineDset(set_idx, fbs[i])) >>])
         ,  << CreatePlot1d(first_cl_dset), SelectPlots(unified_1d_plot),
               Comment(unified_1d_plot), Blank, Comment(unified_1d_plot) >>
         ,  Flatten([i \in 1..K |->
              << CreateCurve(axis_x, parameter, CutlineDset(set_idx, fbs[i]),
                             unified_1d_plot),
                 Comment(curves_for_this_plot[i]),
                 SetAxisType(unified_1d_plot, <<"y">>, y_axis_type),
                 SetAxisRange(unified_1d_plot, <<"x">>, s_range),
                 Comment(<<"0">>) >>])
         ,  << SelectPlots(unified_1d_plot), Comment(unified_1d_plot),
               ExportCurves(curve_names, unified_1d_plot, csv_full_path),
               Comment(csv_full_path) >>),
       curve_counter |-> counter + K ]

\* the (set_idx, param_idx) pairs in the order of the loops at lines 147 and
\* 156 (and 564-565): set_idx from 1, param_idx from 0
RECURSIVE PairsFrom(_)
PairsFrom(set_idx) ==
  IF set_idx > Len(cutplane_cutline_sets) THEN <<>>
  ELSE [p \in 1..Len(cutplane_cutline_sets[set_idx].parameters) |->
          [set_idx |-> set_idx, param_idx |-> p - 1]]
       \o PairsFrom(set_idx + 1)

SetParameterPairs == PairsFrom(1)

\* curve_counter set back to its first value at every (set, parameter)
RECURSIVE M1RunsCounterReset(_, _, _)
M1RunsCounterReset(pairs, axis_x, counter) ==
  IF pairs = <<>> THEN [cmds |-> <<>>, curve_counter |-> counter]
  ELSE LET run == M1Run(pairs[1].set_idx, pairs[1].param_idx,
                        axis_x[pairs[1].set_idx], counter)
           rest == M1RunsCounterReset(Tail(pairs), axis_x, counter)
       IN  [cmds |-> run.cmds \o rest.cmds, curve_counter |-> run.curve_counter]

\* lines 147-278: the runs in order, curve_counter threaded through them;
\* axis_x[set_idx] is what get_axis_mapping returned at line 154
RECURSIVE M1Runs(_, _, _)
M1Runs(pairs, axis_x, counter) ==
  IF pairs = <<>> THEN [cmds |-> <<>>, curve_counter |-> counter]
  ELSE LET run == M1Run(pairs[1].set_idx, pairs[1].param_idx,
                        axis_x[pairs[1].set_idx], counter)
           rest == M1Runs(Tail(pairs), axis_x, run.curve_counter)
       IN  [cmds |-> run.cmds \o rest.cmds, curve_counter |-> rest.curve_counter]

\* what line 154 can return for each set
AxisChoices ==
  { f \in [1..Len(cutplane_cutline_sets) -> {<<"X">>, <<"Y">>, <<"Z">>}] :
      \A k \in 1..Len(cutplane_cutline_sets) :
        f[k] \in get_axis_mapping(cutplane_cutline_sets[k].cutplane_axis,
                                  cutplane_cutline_sets[k].cutline_axis) }

\* the exception that leaves lines 135-280, or "none"
M1Raises ==
  IF SetParameterPairs = <<>> THEN "none"
  ELSE M1RunRaises(cutplane_cutline_sets[SetParameterPairs[1].set_idx])

(***************************************************************************)
(* Mode 3, lines 559-682                                                   *)
(***************************************************************************)
\* line 563
M3FirstCounter == 0

\* the increment of line 566 left out
SetParameterCounterStuck(counter) == counter

\* line 566: set_parameter_counter += 1
NextSetParameterCounter(counter) == counter + 1

\* the exception that leaves a Mode 3 run, or "none": tdr_codes[0], line 597
M3RunRaises == IF tdr_codes = <<>> THEN "IndexError" ELSE "none"

\* lines 566-680 for one (set, parameter); counter is set_parameter_counter
\* after line 566
M3Run(set_idx, param_idx, axis_x, counter) ==
  LET cutset == cutplane_cutline_sets[set_idx]
      parameter == cutset.parameters[param_idx + 1]
      cp_axis == cutset.cutplane_axis
      cp_pos == cutset.cutplane_position
      cl_axis == cutset.cutline_axis
      cl_positions == cutset.cutline_positions
      T == Len(tdr_codes)
      fb(i) == FileBase(parameter, tdr_codes[i])
      first_plot == s_Plot_ \o fb(1) \o s_des
      all_plots == Join([i \in 1..T |-> s_Plot_ \o fb(i) \o s_des], <<" ">>)
      last_plot == s_Plot_ \o fb(T) \o s_des
      last_dset == fb(T) \o s_des
      plot1d_name == s_Plot_ \o CutlineDset(counter, fb(1))
      first_cl_dset == CutlineDset(counter, fb(1))
      all_curve_names == Join([i \in 1..T |-> s_Curve_ \o Str(i)], <<" ">>)
      csv_full_path == csv_export_path \o csv_filename \o s_set \o Str(set_idx)
                       \o s_param \o Str(param_idx + 1) \o <<"_">> \o parameter
                       \o s_csv
  IN  << Banner, Comment(s_console), Banner,
         Comment(s_set_open \o Str(set_idx) \o s_parameter_ \o parameter \o s_dashes) >>
      \o RunOrder(Flatten([i \in 1..T |-> LoadGroup(fb(i))])
      ,  << SelectPlots(first_plot), Comment(first_plot),
            SelectPlots(all_plots), Comment(all_plots),
            LinkPlots(all_plots), Comment(<<"1">>) >>
      ,  << SetFieldProp(parameter, last_plot, last_dset), Comment(<<"0">>) >>
      ,  Flatten([i \in 1..T |->
           << SelectPlots(PlotOf(fb(i))), Comment(PlotOf(fb(i))),
              CreateCutplane(PlotOf(fb(i)), cp_axis, cp_pos),
              Comment(CutplaneDset(counter, fb(i))) >>])
      ,  Flatten([i \in 1..T |->
           << CreatePlotRef(CutplaneDset(counter, fb(i)), PlotOf(fb(i))),
              SelectPlots(s_Plot_ \o CutplaneDset(counter, fb(i))),
              Comment(s_Plot_ \o CutplaneDset(counter, fb(i))), Blank,
              Comment(s_Plot_ \o CutplaneDset(counter, fb(i))) >>])
      ,  Flatten([i \in 1..T |->
           << SelectPlots(s_Plot_ \o CutplaneDset(counter, fb(i))),
              Comment(s_Plot_ \o CutplaneDset(counter, fb(i))),
              CreateCutline(s_Plot_ \o CutplaneDset(counter, fb(i)), cl_axis,
                            cl_positions[i]),
              Comment(CutlineDset(counter, fb(i))) >>])
      ,  << CreatePlot1d(first_cl_dset), SelectPlots(plot1d_name),
            Comment(plot1d_name), Blank, Comment(plot1d_name) >>
      ,  Flatten([i \in 1..T |->
           << CreateCurve(axis_x, parameter, CutlineDset(counter, fb(i)),
                          plot1d_name),
              Comment(s_Curve_ \o Str(i)),
              SetAxisType(plot1d_name, <<"y">>, y_axis_type),
              SetAxisRange(plot1d_name, <<"x">>, s_range),
              Comment(<<"0">>) >>])
      ,  << SelectPlots(plot1d_name), Comment(plot1d_name),
            ExportCurves(all_curve_names, plot1d_name, csv_full_path),
            Comment(csv_full_path) >>)

\* lines 564-680: the runs in order, set_parameter_counter threaded through;
\* axis_x[k] is what get_axis_mapping returned at line 573 in the k-th run
RECURSIVE M3Runs(_, _, _, _)
M3Runs(pairs, k, axis_x, counter) ==
  IF k > Len(pairs) THEN [cmds |-> <<>>, set_parameter_counter |-> counter]
  ELSE LET c == NextSetParameterCounter(counter)
           rest == M3Runs(pairs, k + 1, axis_x, c)
       IN  [cmds |-> M3Run(pairs[k].set_idx, pairs[k].param_idx, axis_x[k], c)
                     \o rest.cmds,
            set_parameter_counter |-> rest.set_parameter_counter]

\* what line 573 can return in each run
M3AxisChoices ==
  { f \in [1..Len(SetParameterPairs) -> {<<"X">>, <<"Y">>, <<"Z">>}] :
      \A k \in 1..Len(SetParameterPairs) :
        LET cutset == cutplane_cutline_sets[SetParameterPairs[k].set_idx]
        IN  f[k] \in get_axis_mapping(cutset.cutplane_axis, cutset.cutline_axis) }

\* the exception that leaves lines 559-682, or "none"
M3Raises == IF SetParameterPairs = <<>> THEN "none" ELSE M3RunRaises

(***************************************************************************)
(* Mode 2, lines 335-459                                                   *)
(***************************************************************************)
\* nodes_data[0] at line 346
M2Raises == IF nodes_data = <<>> THEN "IndexError" ELSE "none"

\* f"{plt_prefix}_{version}_{node_id}_des", lines 348, 360, 367
M2Dataset(pair) ==
  plt_prefix \o <<"_">> \o pair.version \o <<"_">> \o pair.node_id \o s_des

\* lines 376-377
tmax_curve_start == Len(nodes_data) + 1
tmax_curve_end == Len(nodes_data) * 2

\* the palette not cycled: the last colour for every index past its end
M2ColorNotCycled(i) == colors[IF i < Len(colors) THEN i + 1 ELSE Len(colors)]

\* colors[i % len(colors)] for the 0-based index i, line 387
M2Color(i) == colors[(i % Len(colors)) + 1]

CurveNames(from, to) ==
  Join([i \in 1..(to - from + 1) |-> s_Curve_ \o Str(from + i - 1)], <<" ">>)

M2Commands ==
  LET N == Len(nodes_data)
      first_dataset == M2Dataset(nodes_data[1])
      all_datasets == Join([i \in 1..N |-> M2Dataset(nodes_data[i])], <<" ">>)
      curve(n) == s_Curve_ \o Str(n)
      csv_full_path == csv_export_path \o csv_filename \o s_csv
  IN  Header
      \o << LoadFile(base_path \o plt_prefix \o <<"_">> \o nodes_data[1].version
                     \o <<"_">> \o nodes_data[1].node_id \o s_des_plt),
            CreateEmptyPlot1d, SelectPlots(s_Plot_1),
            Comment(s_Plot_1), Blank, Comment(s_Plot_1), Blank,
            Comment(first_dataset) >>
      \o Flatten([i \in 1..(N - 1) |->
           << LoadFile(base_path \o plt_prefix \o <<"_">> \o nodes_data[i + 1].version
                       \o <<"_">> \o nodes_data[i + 1].node_id \o s_des_plt),
              Comment(M2Dataset(nodes_data[i + 1])) >>])
      \o << CreateCurve(s_time, s_drain, all_datasets, s_Plot_1),
            Comment(CurveNames(1, N)) >>
      \o << CreateCurveY2(s_time, s_Tmax, all_datasets, s_Plot_1),
            Comment(CurveNames(tmax_curve_start, tmax_curve_end)) >>
      \o Flatten([i \in 1..N |->
           << SetCurveProp(curve(tmax_curve_start + i - 1), s_Plot_1, "-line_style", s_dash),
              Comment(<<"0">>),
              SetCurveProp(curve(tmax_curve_start + i - 1), s_Plot_1, "-line_width", s_width),
              Comment(<<"0">>),
              SetCurveProp(curve(tmax_curve_start + i - 1), s_Plot_1, "-color", M2Color(i - 1)),
              Comment(<<"0">>),
              SetCurveProp(curve(tmax_curve_start + i - 1), s_Plot_1, "-hide_legend", <<>>),
              Comment(<<"0">>) >>])
      \o Flatten([i \in 1..N |->
           << SetCurveProp(curve(i), s_Plot_1, "-line_width", s_width),
              Comment(<<"0">>) >>])
      \o << SetAxisTitle(s_Plot_1, <<"y","2">>, loc.y2_axis_title), Comment(<<"0">>),
            SetAxisTitle(s_Plot_1, <<"x">>, loc.x_axis_title), Comment(<<"0">>),
            SetAxisTitle(s_Plot_1, <<"y">>, loc.y_axis_title), Comment(<<"0">>) >>
      \o << SetPlotProp(s_Plot_1, "-title", loc.plot_title), Comment(<<"0">>),
            SetPlotProp(s_Plot_1, "-frame_width", s_width), Comment(<<"0">>) >>
      \o << SetLegendPosition(s_Plot_1, loc.legend_x, loc.legend_y), Comment(<<"0">>) >>
      \o << ExportView(loc.png_export_path), Comment(<<"0">>) >>
      \o << MovePlot(s_Plot_1, s_origin), Comment(<<"0">>) >>
      \o Flatten([i \in 1..N |->
           << SetCurveProp(curve(i), s_Plot_1, "-label", s_drain_ \o nodes_data[i].version),
              Comment(<<"0">>) >>])
      \o << ExportCurves(CurveNames(1, N * 2), s_Plot_1, csv_full_path),
            Comment(csv_full_path) >>

(***************************************************************************)
(* What the user may type                                                  *)
(***************************************************************************)
MaxNodes == 2
MaxTdrs == 2
MaxSets == 2
MaxPairs == 7
MaxWorkflows == 3
MaxNameWorkflows == 2

in_eDensity == <<"e","D","e","n","s","i","t","y">>
in_two == <<" ","e","D","e","n","s","i","t","y"," ",",","h","D","e","n","s","i","t","y",","," ",",">>
in_bad == <<"e","D","e","n","s","i","t","y",",","F","o","o">>
in_dup == <<"e","D","e","n","s","i","t","y",",","e","D","e","n","s","i","t","y">>
in_path == <<"/","d">>
in_csvdir == <<"/","o","u","t","/">>
in_csvname == <<"r","e","s">>
in_prefix == <<"D","e","M","O","S">>
in_fileprefix == <<"n","1","2","7","8","_","I","5","_">>
in_current == <<"5","A">>
in_IdPlot == <<"I","d","P","l","o","t">>
in_n1b == <<"n","1","2","5","7","_","I","5">>
in_title == <<"T">>
in_png == <<"/","p",".","p","n","g">>
in_pos == <<"0",".","5">>
in_node == <<"n","1","2","5","0">>
in_n1 == <<"n","1","2","5","7","_","I","4",".","6">>
in_n2 == <<"n","1","3","0","0","_","I","4">>
in_LINEAR == <<"L","I","N","E","A","R">>

CountTexts(max) == {Str(n) : n \in 0..max} \cup {<<"x">>}

\* the texts typed in one workflow of the generators
UserTexts ==
  [ modes |-> {<<"1">>, <<"2">>, <<"3">>, <<"9">>},
    node_counts |-> CountTexts(MaxNodes),
    node_names |-> <<{in_n1}, {in_n2}>>,
    tdr_counts |-> CountTexts(MaxTdrs),
    codes |-> <<{<<"2">>, <<"a","b">>}, {<<"1","5">>}>>,
    need_last_tdr |-> {<<"Y">>, s_no},
    current_values |-> {in_current},
    cutplane_axes |-> << {<<"x">>, <<"Z">>, <<"w">>}, {<<"Z">>} >>,
    cutline_axes |-> << {<<"x">>, <<"y">>, <<"w">>}, {<<"x">>, <<"Z">>} >>,
    parameters1 |-> << {in_eDensity, in_two, in_bad}, {in_eDensity, in_bad} >>,
    parameters3 |-> << {in_dup, in_bad, <<>>}, {in_two, in_bad} >>,
    more |-> {s_yes, s_no},
    y_axis_types |-> {<<>>, in_LINEAR},
    pair_counts |-> CountTexts(MaxPairs),
    versions |-> <<{<<"4">>, <<"5">>}, {<<"4">>}>>,
    save |-> {<<"Y">>, <<"n">>},
    again |-> {s_yes, s_no, <<"?">>},
    max_workflows |-> 1,
    record |-> FALSE ]

\* the set a sequence of per-index sets gives for index i (the last one for
\* every later index)
Nth(sets, i) == sets[IF i < Len(sets) THEN i ELSE Len(sets)]

\* the position typed for TDR i of set entry e: all different
PositionText(e, i) == Str(e) \o <<".">> \o Str(i)

(***************************************************************************)
(* Steps                                                                   *)
(***************************************************************************)
\* the texts typed across several workflows of one process, and their record
MainTexts ==
  [ UserTexts EXCEPT
      !.node_counts = {<<"1">>},
      !.tdr_counts = {<<"1">>},
      !.codes = << {<<"2">>} >>,
      !.cutplane_axes = << {<<"x">>} >>,
      !.cutline_axes = << {<<"x">>, <<"y">>} >>,
      !.parameters1 = << {in_eDensity, in_bad} >>,
      !.parameters3 = << {in_eDensity} >>,
      !.more = {s_no},
      !.y_axis_types = {<<>>},
      !.pair_counts = {<<"0">>, <<"1">>},
      !.versions = << {<<"4">>} >>,
      !.again = {s_yes, s_no},
      !.max_workflows = MaxWorkflows,
      !.record = TRUE ]

InitWith(texts) ==
  /\ pc = "select_mode"
  /\ mode = <<>>
  /\ loc = NoLocals
  /\ commands = <<>>
  /\ raised = "none"
  /\ curve_counter = 0
  /\ set_parameter_counter = 0
  /\ workflows = 0
  /\ env = texts
  /\ inputs = <<>>
  /\ rejected = 0
  /\ malformed = FALSE
  /\ remembered = {}

Init == InitWith(UserTexts)

InitMain == InitWith(MainTexts)

\* the texts typed across workflows of Mode 1 whose two node names vary
NameTexts ==
  [ MainTexts EXCEPT
      !.node_counts = {<<"2">>},
      !.node_names = << {in_n1, in_n1b, in_n2}, {in_n2, in_n1} >>,
      !.parameters1 = << {in_dup} >>,
      !.cutline_axes = << {<<"y">>} >>,
      !.need_last_tdr = {<<"Y">>, s_no},
      !.max_workflows = MaxNameWorkflows ]

InitNames == InitWith(NameTexts)

\* the texts typed in one workflow whose current value and parameter list
\* repeat a part of the names the generators build
PlotTexts ==
  [ MainTexts EXCEPT
      !.node_names = << {in_n1, in_n1b} >>,
      !.current_values = {in_current, in_IdPlot},
      !.parameters1 = << {in_dup} >>,
      !.parameters3 = << {in_dup} >>,
      !.cutline_axes = << {<<"y">>} >>,
      !.need_last_tdr = {<<"Y">>, s_no},
      !.max_workflows = 1 ]

InitPlots == InitWith(PlotTexts)

\* what this invocation was given: the text, whether it is a set entry naming
\* a parameter outside the list, whether it is a count or code that is no number
Note(text, foreign, not_a_number) ==
  /\ inputs' = IF env.record THEN Append(inputs, text) ELSE inputs
  /\ rejected' = IF foreign THEN rejected + 1 ELSE rejected
  /\ malformed' = (malformed \/ not_a_number)

Typed(text) == Note(text, FALSE, FALSE)

\* the generator goes on to its next input() or statement
Goto(next, locals) ==
  /\ pc' = next
  /\ loc' = locals
  /\ UNCHANGED <<commands, raised, curve_counter, set_parameter_counter>>

\* return [] at lines 95, 284, 463, 519, 686
ReturnEmpty ==
  /\ pc' = "returned"
  /\ commands' = <<>>
  /\ UNCHANGED <<loc, raised, curve_counter, set_parameter_counter>>

Frame == UNCHANGED <<mode, workflows, env, remembered>>

\* the first input() of each generator
FirstPrompt(m) ==
  IF m = <<"1">> THEN "m1_num_nodes"
  ELSE IF m = <<"2">> THEN "m2_base_path" ELSE "m3_no_of_tdrs"

\* run_single_workflow has returned, or an exception has left it: its locals
\* and those of the generator are gone
LeaveWorkflow ==
  /\ mode' = <<>>
  /\ loc' = NoLocals
  /\ commands' = <<>>
  /\ raised' = "none"
  /\ inputs' = <<>>
  /\ rejected' = 0
  /\ malformed' = FALSE
  /\ UNCHANGED <<curve_counter, set_parameter_counter, env, remembered>>

\* lines 709-719: the mode prompt; an invalid mode returns False
SelectMode ==
  /\ pc = "select_mode"
  /\ workflows < env.max_workflows
  /\ workflows' = workflows + 1
  /\ \E typed \in env.modes :
       IF typed \in {<<"1">>, <<"2">>, <<"3">>}
       THEN /\ mode' = typed
            /\ pc' = FirstPrompt(typed)
            /\ UNCHANGED <<loc, commands, raised, history, curve_counter,
                           set_parameter_counter, env, remembered>>
       ELSE /\ pc' = "continue"
            /\ LeaveWorkflow

---------------------------------------------------------------------------
\* Mode 1, lines 43-65

\* line 44
M1_num_nodes ==
  /\ pc = "m1_num_nodes"
  /\ \E typed \in env.node_counts :
       /\ Note(typed, FALSE, IntRaises(typed))
       /\ IF IntRaises(typed) THEN ReturnEmpty
          ELSE Goto(IF RangeLen(IntValue(typed)) > 0 THEN "m1_node" ELSE "m1_no_of_tdrs",
                    [loc EXCEPT !.num_nodes = IntValue(typed)])
  /\ Frame

\* lines 46-48
M1_node ==
  /\ pc = "m1_node"
  /\ \E typed \in Nth(env.node_names, Len(node_names) + 1) :
       /\ Typed(typed)
       /\ Goto(IF Len(node_names) + 1 < num_nodes THEN "m1_node" ELSE "m1_no_of_tdrs",
               [loc EXCEPT !.node_names = Append(@, typed)])
  /\ Frame

\* line 50
M1_no_of_tdrs ==
  /\ pc = "m1_no_of_tdrs"
  /\ \E typed \in env.tdr_counts :
       /\ Note(typed, FALSE, IntRaises(typed))
       /\ IF IntRaises(typed) THEN ReturnEmpty
          ELSE Goto(IF RangeLen(IntValue(typed)) > 0 THEN "m1_tdr" ELSE "m1_need_last_tdr",
                    [loc EXCEPT !.no_of_tdrs = IntValue(typed)])
  /\ Frame

\* lines 52-54
M1_tdr ==
  /\ pc = "m1_tdr"
  /\ \E typed \in Nth(env.codes, Len(tdr_codes) + 1) :
       /\ Note(typed, FALSE, ~IsDigits(typed))
       /\ Goto(IF Len(tdr_codes) + 1 < no_of_tdrs THEN "m1_tdr" ELSE "m1_need_last_tdr",
               [loc EXCEPT !.tdr_codes = Append(@, format_tdr_code(typed))])
  /\ Frame

\* lines 56-58
M1_need_last_tdr ==
  /\ pc = "m1_need_last_tdr"
  /\ \E typed \in env.need_last_tdr :
       /\ Typed(typed)
       /\ Goto("m1_base_path", [loc EXCEPT !.need_last_tdr = Lower(typed)])
  /\ Frame

\* lines 60-62
M1_base_path ==
  /\ pc = "m1_base_path"
  /\ Typed(in_path)
  /\ Goto("m1_current_value", [loc EXCEPT !.base_path = WithSlash(in_path)])
  /\ Frame

\* line 65
M1_current_value ==
  /\ pc = "m1_current_value"
  /\ \E typed \in env.current_values :
       /\ Typed(typed)
       /\ Goto("cutplane_axis", [loc EXCEPT !.current_value = typed])
  /\ Frame

---------------------------------------------------------------------------
\* Mode 3, lines 488-502

\* line 489
M3_no_of_tdrs ==
  /\ pc = "m3_no_of_tdrs"
  /\ \E typed \in env.tdr_counts :
       /\ Note(typed, FALSE, IntRaises(typed))
       /\ IF IntRaises(typed) THEN ReturnEmpty
          ELSE Goto("m3_base_path", [loc EXCEPT !.no_of_tdrs = IntValue(typed)])
  /\ Frame

\* lines 490-492
M3_base_path ==
  /\ pc = "m3_base_path"
  /\ Typed(in_path)
  /\ Goto("m3_file_prefix", [loc EXCEPT !.base_path = WithSlash(in_path)])
  /\ Frame

\* line 494
M3_file_prefix ==
  /\ pc = "m3_file_prefix"
  /\ Typed(in_fileprefix)
  /\ Goto("m3_current_value", [loc EXCEPT !.file_prefix = in_fileprefix])
  /\ Frame

\* line 497
M3_current_value ==
  /\ pc = "m3_current_value"
  /\ \E typed \in env.current_values :
       /\ Typed(typed)
       /\ Goto(IF RangeLen(no_of_tdrs) > 0 THEN "m3_tdr" ELSE "cutplane_axis",
               [loc EXCEPT !.current_value = typed])
  /\ Frame

\* lines 499-502
M3_tdr ==
  /\ pc = "m3_tdr"
  /\ \E typed \in Nth(env.codes, Len(tdr_codes) + 1) :
       /\ Note(typed, FALSE, ~IsDigits(typed))
       /\ Goto(IF Len(tdr_codes) + 1 < no_of_tdrs THEN "m3_tdr" ELSE "cutplane_axis",
               [loc EXCEPT !.tdr_codes = Append(@, format_tdr_code(typed))])
  /\ Frame

---------------------------------------------------------------------------
\* The set loop and the closing prompts, the same statements in Mode 1
\* (lines 82-133) and in Mode 3 (lines 505-557)

\* set entries begun so far in this invocation
SetEntries == Len(cutplane_cutline_sets) + rejected

\* lines 83-85 / 507-509
CutplaneAxis ==
  /\ pc = "cutplane_axis"
  /\ SetEntries < MaxSets
  /\ \E typed \in Nth(env.cutplane_axes, SetEntries + 1) :
       /\ Typed(typed)
       /\ IF Lower(typed) \in {<<"x">>, <<"y">>, <<"z">>}
          THEN Goto("cutplane_position", [loc EXCEPT !.cutplane_axis = Lower(typed)])
          ELSE Goto("cutplane_axis", [loc EXCEPT !.cutplane_axis = Lower(typed)])
  /\ Frame

\* line 87 / 511
CutplanePosition ==
  /\ pc = "cutplane_position"
  /\ Typed(in_pos)
  /\ Goto("cutline_axis", [loc EXCEPT !.cutplane_position = in_pos])
  /\ Frame

\* the comparison of the two axes left out
AxisConflictUnchecked(cp_axis, cl_axis) == FALSE

\* line 93 / 517
AxisConflict(cp_axis, cl_axis) == cl_axis = cp_axis

\* lines 89-98 / 513-522
CutlineAxis ==
  /\ pc = "cutline_axis"
  /\ \E typed \in Nth(env.cutline_axes, SetEntries + 1) :
       /\ Typed(typed)
       /\ IF Lower(typed) \notin {<<"x">>, <<"y">>, <<"z">>}
          THEN Goto("cutline_axis", [loc EXCEPT !.cutline_axis = Lower(typed)])
          ELSE IF AxisConflict(cutplane_axis, Lower(typed))
          THEN /\ pc' = "returned"
               /\ commands' = <<>>
               /\ loc' = [loc EXCEPT !.cutline_axis = Lower(typed)]
               /\ UNCHANGED <<raised, curve_counter, set_parameter_counter>>
          ELSE Goto(IF tdr_codes = <<>> THEN "param_input" ELSE "cutline_position",
                    [loc EXCEPT !.cutline_axis = Lower(typed),
                                !.cutline_positions = <<>>])
  /\ Frame

\* lines 99-101 / 523-525
CutlinePosition ==
  /\ pc = "cutline_position"
  /\ LET pos == PositionText(SetEntries + 1, Len(cutline_positions) + 1)
     IN  /\ Typed(pos)
         /\ Goto(IF Len(cutline_positions) + 1 < Len(tdr_codes)
                 THEN "cutline_position" ELSE "param_input",
                 [loc EXCEPT !.cutline_positions = Append(@, pos)])
  /\ Frame

\* the text names, between its commas, a parameter outside the list
HasForeignName(text) ==
  \E k \in 1..Len(Split(text, ",")) :
    LET name == Strip(Split(text, ",")[k])
    IN  name # <<>> /\ name \notin Range(parameters)

\* the texts typed at line 104 / 528
ParameterTexts ==
  Nth(IF mode = <<"1">> THEN env.parameters1 ELSE env.parameters3, SetEntries + 1)

\* lines 104-119 / 528-543
ParamInput ==
  /\ pc = "param_input"
  /\ \E typed \in ParameterTexts :
       LET param_list == parse_parameters(typed)
       IN  /\ Note(typed, HasForeignName(typed), FALSE)
           /\ IF invalid_params(param_list) # <<>>
              THEN /\ pc' = "cutplane_axis"
                   /\ UNCHANGED <<loc, commands, raised, curve_counter,
                                  set_parameter_counter>>
              ELSE Goto("more",
                        [loc EXCEPT !.cutplane_cutline_sets =
                           Append(@, [cutplane_axis |-> cutplane_axis,
                                      cutplane_position |-> cutplane_position,
                                      cutline_axis |-> cutline_axis,
                                      cutline_positions |-> cutline_positions,
                                      parameters |-> param_list])])
  /\ Frame

\* lines 121-123 / 545-547
More ==
  /\ pc = "more"
  /\ \E typed \in env.more :
       /\ Typed(typed)
       /\ Goto(IF IsYes(Lower(typed)) THEN "cutplane_axis" ELSE "y_axis_type", loc)
  /\ Frame

\* lines 125-127 / 549-551
YAxisTypePrompt ==
  /\ pc = "y_axis_type"
  /\ \E typed \in env.y_axis_types :
       /\ Typed(typed)
       /\ Goto("csv_export_path", [loc EXCEPT !.y_axis_type = YAxisType(typed)])
  /\ Frame

\* lines 129-131 / 553-555
CsvExportPath ==
  /\ pc = "csv_export_path"
  /\ Typed(in_csvdir)
  /\ Goto("csv_filename", [loc EXCEPT !.csv_export_path = WithSlash(in_csvdir)])
  /\ Frame

\* line 133 / 557
CsvFilename ==
  /\ pc = "csv_filename"
  /\ Typed(in_csvname)
  /\ Goto(IF mode = <<"1">> THEN "m1_generate" ELSE "m3_generate",
          [loc EXCEPT !.csv_filename = in_csvname])
  /\ Frame

\* lines 135-280: an exception other than ValueError leaves the generator
M1_Generate ==
  /\ pc = "m1_generate"
  /\ IF M1Raises # "none"
     THEN /\ pc' = "raised"
          /\ raised' = M1Raises
          /\ curve_counter' = M1FirstCurve
          /\ UNCHANGED commands
     ELSE \E axis_x \in AxisChoices :
            LET done == M1Runs(SetParameterPairs, axis_x, M1FirstCurve)
            IN  /\ pc' = "returned"
                /\ commands' = Header \o done.cmds
                /\ curve_counter' = done.curve_counter
                /\ UNCHANGED raised
  /\ UNCHANGED <<loc, set_parameter_counter, history>>
  /\ Frame

\* lines 559-682
M3_Generate ==
  /\ pc = "m3_generate"
  /\ IF M3Raises # "none"
     THEN /\ pc' = "raised"
          /\ raised' = M3Raises
          /\ set_parameter_counter' = NextSetParameterCounter(M3FirstCounter)
          /\ UNCHANGED commands
     ELSE \E axis_x \in M3AxisChoices :
            LET done == M3Runs(SetParameterPairs, 1, axis_x, M3FirstCounter)
            IN  /\ pc' = "returned"
                /\ commands' = done.cmds
                /\ set_parameter_counter' = done.set_parameter_counter
                /\ UNCHANGED raised
  /\ UNCHANGED <<loc, curve_counter, history>>
  /\ Frame

---------------------------------------------------------------------------
\* Mode 2, lines 295-459

\* lines 298-300
M2_base_path ==
  /\ pc = "m2_base_path"
  /\ Typed(in_path)
  /\ Goto("m2_plt_prefix", [loc EXCEPT !.base_path = WithSlash(in_path)])
  /\ Frame

\* line 303
M2_plt_prefix ==
  /\ pc = "m2_plt_prefix"
  /\ Typed(in_prefix)
  /\ Goto("m2_num_nodes", [loc EXCEPT !.plt_prefix = in_prefix])
  /\ Frame

\* line 306
M2_num_nodes ==
  /\ pc = "m2_num_nodes"
  /\ \E typed \in env.pair_counts :
       /\ Note(typed, FALSE, IntRaises(typed))
       /\ IF IntRaises(typed) THEN ReturnEmpty
          ELSE Goto(IF RangeLen(IntValue(typed)) > 0 THEN "m2_version"
                    ELSE "m2_csv_export_path",
                    [loc EXCEPT !.num_nodes = IntValue(typed)])
  /\ Frame

\* the versions typed for pair i: different from those of every other pair
VersionTexts(i) == {v \o <<".">> \o Str(i) : v \in Nth(env.versions, i)}

\* line 310
M2_version ==
  /\ pc = "m2_version"
  /\ \E typed \in VersionTexts(Len(nodes_data) + 1) :
       /\ Typed(typed)
       /\ Goto("m2_node_id", [loc EXCEPT !.version = typed])
  /\ Frame

\* lines 311-312
M2_node_id ==
  /\ pc = "m2_node_id"
  /\ Typed(in_node)
  /\ Goto(IF Len(nodes_data) + 1 < num_nodes THEN "m2_version"
          ELSE "m2_csv_export_path",
          [loc EXCEPT !.nodes_data =
             Append(@, [version |-> loc.version, node_id |-> in_node])])
  /\ Frame

\* lines 316-318
M2_csv_export_path ==
  /\ pc = "m2_csv_export_path"
  /\ Typed(in_csvdir)
  /\ Goto("m2_csv_filename", [loc EXCEPT !.csv_export_path = WithSlash(in_csvdir)])
  /\ Frame

\* line 319
M2_csv_filename ==
  /\ pc = "m2_csv_filename"
  /\ Typed(in_csvname)
  /\ Goto("m2_plot_title", [loc EXCEPT !.csv_filename = in_csvname])
  /\ Frame

\* lines 323-333: the seven texts that are only copied into the commands
M2TextPrompts ==
  << [at |-> "m2_plot_title", next |-> "m2_x_axis_title"],
     [at |-> "m2_x_axis_title", next |-> "m2_y_axis_title"],
     [at |-> "m2_y_axis_title", next |-> "m2_y2_axis_title"],
     [at |-> "m2_y2_axis_title", next |-> "m2_legend_x"],
     [at |-> "m2_legend_x", next |-> "m2_legend_y"],
     [at |-> "m2_legend_y", next |-> "m2_png_export_path"],
     [at |-> "m2_png_export_path", next |-> "m2_generate"] >>

M2_text ==
  /\ \E k \in 1..Len(M2TextPrompts) :
       /\ pc = M2TextPrompts[k].at
       /\ LET typed == in_title \o Str(k)
          IN  /\ Typed(typed)
              /\ Goto(M2TextPrompts[k].next,
                      CASE k = 1 -> [loc EXCEPT !.plot_title = typed]
                        [] k = 2 -> [loc EXCEPT !.x_axis_title = typed]
                        [] k = 3 -> [loc EXCEPT !.y_axis_title = typed]
                        [] k = 4 -> [loc EXCEPT !.y2_axis_title = typed]
                        [] k = 5 -> [loc EXCEPT !.legend_x = typed]
                        [] k = 6 -> [loc EXCEPT !.legend_y = typed]
                        [] OTHER -> [loc EXCEPT !.png_export_path = typed])
  /\ Frame

\* lines 335-459
M2_Generate ==
  /\ pc = "m2_generate"
  /\ IF M2Raises # "none"
     THEN /\ pc' = "raised"
          /\ raised' = M2Raises
          /\ UNCHANGED commands
     ELSE /\ pc' = "returned"
          /\ commands' = M2Commands
          /\ UNCHANGED raised
  /\ UNCHANGED <<loc, curve_counter, set_parameter_counter, history>>
  /\ Frame

---------------------------------------------------------------------------
\* run_single_workflow and main, lines 692-789

GeneratorPrompts ==
  { "m1_num_nodes", "m1_node", "m1_no_of_tdrs", "m1_tdr", "m1_need_last_tdr",
    "m1_base_path", "m1_current_value", "m3_no_of_tdrs", "m3_base_path",
    "m3_file_prefix", "m3_current_value", "m3_tdr", "cutplane_axis",
    "cutplane_position", "cutline_axis", "cutline_position", "param_input",
    "more", "y_axis_type", "csv_export_path", "csv_filename", "m2_base_path",
    "m2_plt_prefix", "m2_num_nodes", "m2_version", "m2_node_id",
    "m2_csv_export_path", "m2_csv_filename" }
  \cup {M2TextPrompts[k].at : k \in 1..Len(M2TextPrompts)}

\* Ctrl-C at an input(): lines 282-284, 461-463, 684-686 inside a generator,
\* lines 744-746 in run_single_workflow, lines 780-785 in main
KeyboardInterrupt ==
  /\ pc \in GeneratorPrompts \cup {"select_mode", "save", "save_fname", "continue"}
  /\ IF pc \in GeneratorPrompts
     THEN ReturnEmpty /\ Typed(<<"^", "C">>) /\ UNCHANGED <<mode, env, remembered>>
     ELSE /\ pc' = IF pc = "continue" THEN "exit" ELSE "continue"
          /\ LeaveWorkflow
  /\ UNCHANGED workflows

\* lines 721-723; the history of this invocation is kept or not
CheckCommands ==
  /\ pc = "returned"
  /\ \/ UNCHANGED remembered
     \/ /\ env.record
        /\ remembered = {}
        /\ remembered' = {[mode |-> mode, inputs |-> inputs, commands |-> commands,
                            workflow |-> workflows]}
  /\ IF commands = <<>>
     THEN /\ pc' = "continue"
          /\ mode' = <<>>
          /\ loc' = NoLocals
          /\ inputs' = <<>>
          /\ rejected' = 0
          /\ malformed' = FALSE
          /\ UNCHANGED <<commands, raised>>
     ELSE /\ pc' = "save"
          /\ UNCHANGED <<mode, loc, commands, raised, history>>
  /\ UNCHANGED <<curve_counter, set_parameter_counter, workflows, env>>

\* lines 731-732, and 742 when the answer is not y
SaveChoice ==
  /\ pc = "save"
  /\ \E typed \in env.save :
       IF Lower(typed) = <<"y">>
       THEN /\ pc' = "save_fname"
            /\ UNCHANGED <<mode, loc, commands, raised, history,
                           curve_counter, set_parameter_counter, env, remembered>>
       ELSE /\ pc' = "continue"
            /\ LeaveWorkflow
  /\ UNCHANGED workflows

\* lines 733-742: the commands go to the named file, which is outside the
\* program's state
SaveFile ==
  /\ pc = "save_fname"
  /\ pc' = "continue"
  /\ LeaveWorkflow
  /\ UNCHANGED workflows

\* lines 763-778
ContinueChoice ==
  /\ pc = "continue"
  /\ \E typed \in env.again :
       LET continue_choice == Strip(Lower(typed))
       IN  pc' = IF IsYes(continue_choice) THEN "select_mode"
                 ELSE IF continue_choice \in {s_no, <<"n">>} THEN "exit"
                 ELSE "continue"
  /\ UNCHANGED <<mode, loc, commands, raised, curve_counter, set_parameter_counter,
                 workflows, env, history, remembered>>

\* lines 786-789: main restarts the workflow after an exception
RestartWorkflow ==
  /\ pc = "raised"
  /\ pc' = "select_mode"
  /\ LeaveWorkflow
  /\ UNCHANGED workflows

Next ==
  \/ SelectMode
  \/ M1_num_nodes \/ M1_node \/ M1_no_of_tdrs \/ M1_tdr \/ M1_need_last_tdr
  \/ M1_base_path \/ M1_current_value
  \/ M3_no_of_tdrs \/ M3_base_path \/ M3_file_prefix \/ M3_current_value \/ M3_tdr
  \/ CutplaneAxis \/ CutplanePosition \/ CutlineAxis \/ CutlinePosition
  \/ ParamInput \/ More \/ YAxisTypePrompt \/ CsvExportPath \/ CsvFilename
  \/ M1_Generate \/ M3_Generate
  \/ M2_base_path \/ M2_plt_prefix \/ M2_num_nodes \/ M2_version \/ M2_node_id
  \/ M2_csv_export_path \/ M2_csv_filename \/ M2_text \/ M2_Generate
  \/ KeyboardInterrupt \/ CheckCommands \/ SaveChoice \/ SaveFile
  \/ ContinueChoice \/ RestartWorkflow

Spec == Init /\ [][Next]_vars

\* main run over several workflows
SpecMain == InitMain /\ [][Next]_vars

\* main run over workflows with varying names
SpecNames == InitNames /\ [][Next]_vars

SpecPlots == InitPlots /\ [][Next]_vars

(***************************************************************************)
(* Reading a returned command sequence                                     *)
(***************************************************************************)
Mode13 == mode \in {<<"1">>, <<"3">>}

\* the positions of the lines of one kind
Lines(op) == {i \in 1..Len(commands) : commands[i].op = op}

s_load == "load_file -fod"
s_create_plot == "create_plot -dataset"
s_create_plot_ref == "create_plot -dataset -ref_plot"
s_create_plot_1d == "create_plot -dataset -1d"
s_link == "link_plots"
s_field == "set_field_prop -show_bands"
s_cutplane == "create_cutplane"
s_cutline == "create_cutline"
s_curve == "create_curve -axisY"
s_export == "export_curves -format csv"

C2_AxisConflictReturnsEmpty ==
  [][ (/\ pc = "cutline_axis" /\ Mode13
       /\ loc'.cutline_axis = loc.cutplane_axis)
      => (pc' = "returned" /\ commands' = <<>>) ]_vars

\* a later set was typed with equal axes after an earlier set was accepted
C2_Witness ==
  /\ pc = "returned" /\ Mode13 /\ commands = <<>>
  /\ Len(cutplane_cutline_sets) >= 1
  /\ cutline_axis = cutplane_axis
  /\ cutline_axis # cutplane_cutline_sets[Len(cutplane_cutline_sets)].cutline_axis

\* the (set, parameter) run a line belongs to: a run ends with its
\* export_curves line
RunOf(i) == Cardinality({j \in Lines(s_export) : j < i}) + 1
Runs == 1..Cardinality(Lines(s_export))
InRun(r, op) == {i \in Lines(op) : RunOf(i) = r}

\* the dataset a load_file line loads: its file without directory and .tdr
LoadedDataset(i) ==
  SubSeq(commands[i].file, Len(base_path) + 1, Len(commands[i].file) - 4)

(***************************************************************************)
(* C3: the order of the phases of a run                                    *)
(***************************************************************************)
\* the load_file line l is followed, in this order and before line last, by
\* the create_cutplane in its plot, the create_plot of that cutplane, the
\* create_cutline in that plot and the create_curve of that cutline
PhaseChain(r, l, last) ==
  \E cp \in InRun(r, s_cutplane) :
    /\ l < cp
    /\ commands[cp].plot = s_Plot_ \o LoadedDataset(l)
    /\ \E pr \in InRun(r, s_create_plot_ref) :
         /\ cp < pr
         /\ commands[pr].ref_plot = commands[cp].plot
         /\ \E cl \in InRun(r, s_cutline) :
              /\ pr < cl
              /\ commands[cl].plot = s_Plot_ \o commands[pr].dataset
              /\ \E cv \in InRun(r, s_curve) :
                   /\ cl < cv
                   /\ cv < last
                   /\ commands[cv].dataset
                        = s_C1open \o commands[pr].dataset \o <<")">>

\* C3: in every command sequence Mode 1 or Mode 3 returns, within each (set,
\* parameter) run every load_file line precedes the create_cutplane of its
\* file base, which precedes the create_plot of that cutplane, which precedes
\* its create_cutline, which precedes its create_curve, which precedes the
\* run's export_curves; the run's one link_plots and one set_field_prop line
\* come after all its load_file lines and before all its create_cutplane
\* lines, and its one create_plot -1d line after all its create_cutline lines
\* and before all its create_curve lines.
C3_PhasesInDependencyOrder ==
  (pc = "returned" /\ Mode13) =>
    \A r \in Runs :
      LET loads == InRun(r, s_load)
          once == InRun(r, s_link) \cup InRun(r, s_field)
          cutplanes == InRun(r, s_cutplane)
          cutlines == InRun(r, s_cutline)
          plot1d == InRun(r, s_create_plot_1d)
          curves == InRun(r, s_curve)
          export == InRun(r, s_export)
      IN  /\ Cardinality(InRun(r, s_link)) = 1
          /\ Cardinality(InRun(r, s_field)) = 1
          /\ Cardinality(plot1d) = 1
          /\ Cardinality(export) = 1
          /\ loads # {}
          /\ \A l \in loads : \A k \in once : l < k
          /\ \A k \in once : \A c \in cutplanes : k < c
          /\ \A c \in cutlines : \A p \in plot1d : c < p
          /\ \A p \in plot1d : \A v \in curves : p < v
          /\ \A l \in loads : \A e \in export : PhaseChain(r, l, e)

\* Mode 1 returned two runs of three file bases each
C3_Witness ==
  /\ pc = "returned" /\ mode = <<"1">>
  /\ Cardinality(Runs) = 2
  /\ \A r \in Runs : Cardinality(InRun(r, s_load)) = 3

(***************************************************************************)
(* C4: names are derived from what the sequence introduced                 *)
(***************************************************************************)
CreatePlotOps == {s_create_plot, s_create_plot_ref, s_create_plot_1d}

\* the plot names line i refers to: the list of select_plots, a -plot or a
\* -ref_plot argument
PlotArgs(i) ==
  IF commands[i].op = "select_plots"
  THEN Range(Split(commands[i].plots, " "))
  ELSE IF commands[i].op = s_create_plot_ref THEN {commands[i].ref_plot}
  ELSE IF commands[i].op \in {s_field, s_cutplane, s_cutline, s_curve, s_export,
                              "set_axis_prop -type", "set_axis_prop -range"}
  THEN {commands[i].plot}
  ELSE {}

\* the datasets line i passes to create_plot or create_curve
DatasetArgs(i) ==
  IF commands[i].op \in CreatePlotOps \cup {s_curve}
  THEN {commands[i].dataset} ELSE {}

\* "Plot_" and the dataset of a create_plot line before line i
PlotsBefore(i) ==
  {s_Plot_ \o commands[j].dataset :
     j \in {k \in 1..(i - 1) : commands[k].op \in CreatePlotOps}}

\* the datasets loaded before line i, and the identifiers announced in the
\* comment after a create_cutplane or create_cutline before line i
DatasetsBefore(i) ==
  {LoadedDataset(j) : j \in {k \in 1..(i - 1) : commands[k].op = s_load}}
  \cup {commands[j + 1].text :
          j \in {k \in 1..(i - 1) : /\ commands[k].op \in {s_cutplane, s_cutline}
                                    /\ commands[k + 1].op = "#"}}

\* C4: in every command sequence Mode 1 or Mode 3 returns, every plot name
\* used as a select_plots, -plot or -ref_plot argument is "Plot_" followed by
\* the dataset of an earlier create_plot -dataset line, and every dataset
\* passed to create_plot or create_curve is a loaded "<FileBase>_des" or the
\* identifier announced in the comment after an earlier create_cutplane or
\* create_cutline line.
C4_NamesDerivedFromEarlierLines ==
  (pc = "returned" /\ Mode13) =>
    \A i \in 1..Len(commands) :
      /\ PlotArgs(i) \subseteq PlotsBefore(i)
      /\ DatasetArgs(i) \subseteq DatasetsBefore(i)

(***************************************************************************)
(* C5: the size of a Mode 1 run                                            *)
(***************************************************************************)
\* N*T, and one more when the answer about the last TDR was yes or y
GroupsPerRun ==
  Len(node_names) * Len(tdr_codes)
  + (IF need_last_tdr \in {<<"y","e","s">>, <<"y">>} THEN 1 ELSE 0)

\* C5: in Mode 1 with N node names and T TDR codes, each (set, parameter) run
\* holds exactly K load_file lines each followed by the create_plot of the
\* loaded dataset, one link_plots line listing K plots, K create_cutplane, K
\* create_plot -ref_plot, K create_cutline, one create_plot -1d, K
\* create_curve lines and one export_curves line whose file name ends in
\* _set<set index>_param_<parameter>.csv, where K = N*T, plus one when the
\* answer about the last TDR was yes or y.
C5_RunSizes ==
  (pc = "returned" /\ mode = <<"1">> /\ commands # <<>>) =>
    /\ Cardinality(Runs) = Len(SetParameterPairs)
    /\ \A r \in Runs :
         LET K == GroupsPerRun
             pair == SetParameterPairs[r]
             parameter ==
               cutplane_cutline_sets[pair.set_idx].parameters[pair.param_idx + 1]
         IN  /\ Cardinality(InRun(r, s_load)) = K
             /\ Cardinality(InRun(r, s_create_plot)) = K
             /\ \A l \in InRun(r, s_load) :
                  /\ commands[l + 1].op = s_create_plot
                  /\ commands[l + 1].dataset = LoadedDataset(l)
             /\ Cardinality(InRun(r, s_link)) = 1
             /\ \A k \in InRun(r, s_link) : Len(Split(commands[k].plots, " ")) = K
             /\ Cardinality(InRun(r, s_cutplane)) = K
             /\ Cardinality(InRun(r, s_create_plot_ref)) = K
             /\ Cardinality(InRun(r, s_cutline)) = K
             /\ Cardinality(InRun(r, s_create_plot_1d)) = 1
             /\ Cardinality(InRun(r, s_curve)) = K
             /\ Cardinality(InRun(r, s_export)) = 1
             /\ \A e \in InRun(r, s_export) :
                  EndsWith(commands[e].filename,
                           <<"_","s","e","t">> \o Str(pair.set_idx)
                           \o <<"_","p","a","r","a","m","_">> \o parameter
                           \o <<".","c","s","v">>)

\* two nodes, two TDR codes and the last TDR: runs of five groups, in two sets
C5_Witness ==
  /\ pc = "returned" /\ mode = <<"1">> /\ commands # <<>>
  /\ Len(node_names) = 2 /\ Len(tdr_codes) = 2 /\ GroupsPerRun = 5
  /\ Len(cutplane_cutline_sets) = 2
  /\ Cardinality(Runs) >= 2

(***************************************************************************)
(* C6: the counter of Mode 3                                               *)
(***************************************************************************)
\* the identifier announced in the comment after a create_cutplane or
\* create_cutline line
Announced(i) == commands[i + 1].text

\* the name of the 1D plot of a run: what is selected after create_plot -1d
Plot1dName(i) == commands[i + 1].plots

\* C6: in Mode 3 the counter of the cutplane identifiers C<k>(...) goes up by
\* one for each (set, parameter) pair, so the r-th pair's identifiers carry
\* k = r, and the cutplane and cutline identifiers and the 1D plot names of
\* two different pairs are never equal, also when the pairs have the same
\* parameter and TDR codes; the sequence holds exactly one create_plot -1d
\* and one export_curves line per pair.
C6_CounterSeparatesPairs ==
  (pc = "returned" /\ mode = <<"3">> /\ commands # <<>>) =>
    LET cuts == Lines(s_cutplane) \cup Lines(s_cutline)
    IN  /\ Cardinality(Lines(s_create_plot_1d)) = Len(SetParameterPairs)
        /\ Cardinality(Lines(s_export)) = Len(SetParameterPairs)
        /\ set_parameter_counter = Len(SetParameterPairs)
        /\ \A i \in Lines(s_cutplane) :
             StartsWith(Announced(i), <<"C">> \o Str(RunOf(i)) \o <<"(">>)
        /\ \A i \in cuts : \A j \in cuts :
             RunOf(i) # RunOf(j) => Announced(i) # Announced(j)
        /\ \A i \in Lines(s_create_plot_1d) : \A j \in Lines(s_create_plot_1d) :
             i # j => Plot1dName(i) # Plot1dName(j)

\* Mode 3 returned the runs of a set naming the same parameter twice, for two
\* TDR codes
C6_Witness ==
  /\ pc = "returned" /\ mode = <<"3">> /\ commands # <<>>
  /\ Len(tdr_codes) = 2
  /\ \E k \in 1..Len(cutplane_cutline_sets) :
       /\ Len(cutplane_cutline_sets[k].parameters) = 2
       /\ cutplane_cutline_sets[k].parameters[1] = cutplane_cutline_sets[k].parameters[2]

(***************************************************************************)
(* C7: the curves of Mode 2                                                *)
(***************************************************************************)
CurveName(n) == <<"C","u","r","v","e","_">> \o Str(n)

\* the set_curve_prop lines of one curve
StylingOf(curve) == {i \in Lines("set_curve_prop") : commands[i].curve = curve}

\* what these lines set: property and value
Styles(curve) ==
  {<<commands[i].prop, commands[i].value>> : i \in StylingOf(curve)}

\* C7: in Mode 2 with N >= 1 (version, node) pairs the sequence addresses
\* exactly Curve_1..Curve_2N: each of Curve_1..Curve_N gets one line_width
\* line and, later, its label and nothing else; each Curve_(N+1+i), i in
\* 0..N-1, gets dash line style, line width 2, the palette colour at index
\* i mod 6 and hide_legend and nothing else; the one export_curves line lists
\* Curve_1 to Curve_2N in ascending order.
C7_TwoNCurves ==
  (pc = "returned" /\ mode = <<"2">> /\ commands # <<>>) =>
    LET N == Len(nodes_data)
    IN  /\ N >= 1
        /\ {commands[i].curve : i \in Lines("set_curve_prop")}
             = {CurveName(n) : n \in 1..(2 * N)}
        /\ \A n \in 1..N :
             /\ Cardinality(StylingOf(CurveName(n))) = 2
             /\ \E w \in StylingOf(CurveName(n)) : \E l \in StylingOf(CurveName(n)) :
                  /\ w < l
                  /\ commands[w].prop = "-line_width"
                  /\ commands[l].prop = "-label"
        /\ \A i \in 0..(N - 1) :
             /\ Cardinality(StylingOf(CurveName(N + 1 + i))) = 4
             /\ Styles(CurveName(N + 1 + i))
                  = { <<"-line_style", <<"d","a","s","h">> >>,
                      <<"-line_width", <<"2">> >>,
                      <<"-color", colors[(i % 6) + 1]>>,
                      <<"-hide_legend", <<>> >> }
        /\ Cardinality(Lines(s_export)) = 1
        /\ \A e \in Lines(s_export) :
             Split(commands[e].curves, " ") = [n \in 1..(2 * N) |-> CurveName(n)]

\* seven pairs: the seventh Tmax curve takes the first colour again
C7_Witness ==
  /\ pc = "returned" /\ mode = <<"2">> /\ commands # <<>>
  /\ Len(nodes_data) = 7

(***************************************************************************)
(* C8: a generator's output depends on its inputs only                     *)
(***************************************************************************)
\* C8: two invocations of the same mode that are given the same inputs
\* return the same command sequence, also when other workflows, of any mode,
\* successful or not, ran in the main loop between them: no curve counter or
\* set/parameter counter is carried from one invocation to the next.
C8_SameInputsSameCommands ==
  pc = "returned" =>
    \A earlier \in remembered :
      (earlier.mode = mode /\ earlier.inputs = inputs)
        => earlier.commands = commands

\* the third workflow of the process returns Mode 1 commands for the inputs
\* its first workflow was given
C8_Witness ==
  /\ pc = "returned" /\ mode = <<"1">> /\ commands # <<>>
  /\ workflows = 3
  /\ \E earlier \in remembered :
       /\ earlier.workflow = 1
       /\ earlier.mode = mode
       /\ earlier.inputs = inputs

(***************************************************************************)
(* C9: the cutline of the synthetic file base                              *)
(***************************************************************************)
\* the last create_cutline line of a run: that of the last entry of the
\* file-base list
LastCutline(r) ==
  CHOOSE i \in InRun(r, s_cutline) : \A j \in InRun(r, s_cutline) : j <= i

\* C9: in Mode 1 with the last TDR asked for, in every run the create_cutline
\* line of the synthetic file base, the last entry of the file-base list, is
\* at the position entered for the last TDR code of the run's set, for every
\* N >= 1 and T >= 1.
C9_SyntheticAtLastPosition ==
  (/\ pc = "returned" /\ mode = <<"1">> /\ commands # <<>>
   /\ need_last_tdr \in {<<"y","e","s">>, <<"y">>}) =>
    \A r \in Runs :
      LET cutset == cutplane_cutline_sets[SetParameterPairs[r].set_idx]
      IN  commands[LastCutline(r)].at
            = cutset.cutline_positions[Len(cutset.cutline_positions)]

(***************************************************************************)
(* C10: counts and TDR codes that are no numbers                           *)
(***************************************************************************)
\* C10: in Mode 1 and Mode 3, an invocation that was given a node or TDR
\* count that is no integer, or a TDR code that is not numeric, returns the
\* empty list: it does not go on to generate commands with that value.
C10_MalformedNumberFails ==
  (pc = "returned" /\ Mode13 /\ malformed) => commands = <<>>

(***************************************************************************)
(* C11: the form of a stored TDR code                                      *)
(***************************************************************************)
\* C11: every TDR code a Mode 1 or Mode 3 invocation stores and writes into
\* its commands is exactly 4 digits and begins with "00".
C11_TdrCodesFourDigits ==
  (pc = "returned" /\ Mode13 /\ commands # <<>>) =>
    \A k \in 1..Len(tdr_codes) :
      /\ Len(tdr_codes[k]) = 4
      /\ IsDigits(tdr_codes[k])
      /\ SubSeq(tdr_codes[k], 1, 2) = <<"0","0">>

\* the set and the parameter of the r-th (set, parameter) run
RunCutset(r) == cutplane_cutline_sets[SetParameterPairs[r].set_idx]
RunParameter(r) == RunCutset(r).parameters[SetParameterPairs[r].param_idx + 1]

(***************************************************************************)
(* C12: the X axis of a curve                                              *)
(***************************************************************************)
AxisLetters == {<<"x">>, <<"y">>, <<"z">>, <<"X">>, <<"Y">>, <<"Z">>}

\* the upper-case axes that are neither a nor b, letter case ignored
AxisComplement(a, b) ==
  {c \in {<<"X">>, <<"Y">>, <<"Z">>} : Lower(c) \notin {Lower(a), Lower(b)}}

\* C12: for every two different axes a and b of x/y/z, in either letter case,
\* get_axis_mapping(a, b) is the one upper-case axis that is neither of them;
\* and every create_curve line of Mode 1 and Mode 3 has as -axisX the one axis
\* that is neither the cutplane nor the cutline axis of its set and as -axisY
\* the parameter of its run.  The first part speaks of the function alone,
\* so it is evaluated once, before the first workflow.
C12_AxisXIsTheThirdAxis ==
  /\ workflows = 0 =>
       \A a \in AxisLetters : \A b \in AxisLetters :
         Lower(a) # Lower(b) =>
           /\ get_axis_mapping(a, b) = AxisComplement(a, b)
           /\ Cardinality(get_axis_mapping(a, b)) = 1
  /\ (pc = "returned" /\ Mode13) =>
       \A i \in Lines(s_curve) :
         /\ {commands[i].axisX}
              = AxisComplement(RunCutset(RunOf(i)).cutplane_axis,
                               RunCutset(RunOf(i)).cutline_axis)
         /\ commands[i].axisY = RunParameter(RunOf(i))

\* a returned sequence with curves over two different X axes, from two sets
C12_Witness ==
  /\ pc = "returned" /\ Mode13
  /\ Len(cutplane_cutline_sets) = 2
  /\ \E i \in Lines(s_curve) : \E j \in Lines(s_curve) :
       commands[i].axisX # commands[j].axisX

(***************************************************************************)
(* C13: the labels of the curves                                           *)
(***************************************************************************)
\* the label the tool gives the curve of a create_curve line: the comment
\* after it
CurveLabel(i) == commands[i + 1].text

\* the place of line i among the lines S, counted from 1
RankIn(S, i) == Cardinality({j \in S : j <= i})

\* the labels an export_curves line lists
ExportedLabels(e) == Split(commands[e].curves, " ")

\* C13: curve labels follow the order of emission, and each export_curves
\* line lists exactly the labels of the create_curve lines of its own (set,
\* parameter) run, in their order.  In Mode 1 the k-th create_curve line of
\* the whole sequence is labelled Curve_k: the numbering starts at 1, goes up
\* by one and is not reset between sets or parameters.  In Mode 3 the labels
\* start again at Curve_1 in every run and the export lists Curve_1..Curve_T.
C13_LabelsInEmissionOrder ==
  (pc = "returned" /\ Mode13 /\ commands # <<>>) =>
    /\ \A r \in Runs : \A e \in InRun(r, s_export) :
         /\ Len(ExportedLabels(e)) = Cardinality(InRun(r, s_curve))
         /\ \A i \in InRun(r, s_curve) :
              /\ i < e
              /\ commands[i + 1].op = "#"
              /\ ExportedLabels(e)[RankIn(InRun(r, s_curve), i)] = CurveLabel(i)
    /\ mode = <<"1">> =>
         \A i \in Lines(s_curve) :
           CurveLabel(i) = CurveName(RankIn(Lines(s_curve), i))
    /\ mode = <<"3">> =>
         /\ \A i \in Lines(s_curve) :
              CurveLabel(i) = CurveName(RankIn(InRun(RunOf(i), s_curve), i))
         /\ \A e \in Lines(s_export) :
              ExportedLabels(e) = [n \in 1..Len(tdr_codes) |-> CurveName(n)]

\* Mode 1 returned a second run whose export begins past Curve_2
C13_Witness ==
  /\ pc = "returned" /\ mode = <<"1">>
  /\ Cardinality(Runs) >= 2
  /\ \E e \in InRun(2, s_export) :
       /\ Len(ExportedLabels(e)) >= 2
       /\ ExportedLabels(e)[1] = CurveName(Len(ExportedLabels(e)) + 1)

(***************************************************************************)
(* C14: the order of a Mode 2 sequence                                     *)
(***************************************************************************)
\* the lines that are commands: neither comment nor blank
CommandLines ==
  {i \in 1..Len(commands) : commands[i].op \notin {"#", "", Banner.op}}

\* every line of A comes before every line of B
Before(A, B) == \A a \in A : \A b \in B : a < b

\* the set_curve_prop lines of the curves numbered from..to
StylingLines(from, to) ==
  {i \in Lines("set_curve_prop") :
     \E n \in from..to : commands[i].curve = CurveName(n)}

\* C14: in every Mode 2 sequence the load_file lines, the first followed by
\* create_plot -1d and the others in the order of the pairs, precede the two
\* create_curve lines, Y before Y2; all styling of the Y2 curves precedes the
\* widths of the Y curves; these precede the axis titles, the plot title and
\* frame and the legend position; then export_view, then move_plot, and only
\* after move_plot the label of each Y curve Curve_i, "drain OuterVoltage_"
\* and the version of pair i; export_curves is the last command.
C14_Mode2Order ==
  (pc = "returned" /\ mode = <<"2">> /\ commands # <<>>) =>
    LET N == Len(nodes_data)
        loads == Lines("load_file")
        curveY == Lines(s_curve)
        curveY2 == Lines("create_curve -axisY2")
        y2style == StylingLines(N + 1, 2 * N)
        widths == {i \in StylingLines(1, N) : commands[i].prop = "-line_width"}
        labels == {i \in StylingLines(1, N) : commands[i].prop = "-label"}
        titles == Lines("set_axis_prop -title") \cup Lines("set_plot_prop")
                  \cup Lines("set_legend_prop -position")
        view == Lines("export_view -format png")
        move == Lines("move_plot -position")
        export == Lines(s_export)
    IN  /\ Cardinality(loads) = N
        /\ \A l \in loads :
             /\ commands[l].file
                  = base_path \o M2Dataset(nodes_data[RankIn(loads, l)])
                    \o <<".","p","l","t">>
             /\ (RankIn(loads, l) = 1) = (commands[l + 1].op = "create_plot -1d")
        /\ Cardinality(curveY) = 1 /\ Cardinality(curveY2) = 1
        /\ Before(loads, curveY) /\ Before(curveY, curveY2)
        /\ Cardinality(y2style) = 4 * N /\ Before(curveY2, y2style)
        /\ Cardinality(widths) = N /\ Before(y2style, widths)
        /\ Cardinality(titles) = 6 /\ Before(widths, titles)
        /\ Cardinality(view) = 1 /\ Before(titles, view)
        /\ Cardinality(move) = 1 /\ Before(view, move)
        /\ Cardinality(labels) = N /\ Before(move, labels)
        /\ \A n \in 1..N : \E i \in labels :
             /\ commands[i].curve = CurveName(n)
             /\ commands[i].value = s_drain_ \o nodes_data[n].version
        /\ Cardinality(export) = 1 /\ Before(labels, export)
        /\ \A e \in export : \A i \in CommandLines : i <= e

\* Mode 2 returned the sequence of three pairs
C14_Witness ==
  /\ pc = "returned" /\ mode = <<"2">> /\ commands # <<>>
  /\ Len(nodes_data) = 3
  /\ Cardinality(Lines("load_file")) = 3

(***************************************************************************)
(* C15: the anchors of a run                                               *)
(***************************************************************************)
\* the first and the last entry of the file-base list of run r: in Mode 1 the
\* last is the synthetic entry when the flag is set
FirstFileBase(r) == FileBase(RunParameter(r), tdr_codes[1])
LastFileBase(r) ==
  IF mode = <<"1">> /\ need_last_tdr \in {<<"y","e","s">>, <<"y">>}
  THEN FileBase(RunParameter(r), Split(node_names[1], "_")[1])
  ELSE FileBase(RunParameter(r), tdr_codes[Len(tdr_codes)])

\* the number in the cutplane identifiers of run r: the set index in Mode 1,
\* the counter of the pairs in Mode 3
RunCutNumber(r) == IF mode = <<"1">> THEN SetParameterPairs[r].set_idx ELSE r

\* C15: in each (set, parameter) run of Mode 1 and Mode 3 the set_field_prop
\* line names the plot and the dataset of the last file base of the run's
\* list, and the create_plot -1d line names the cutline dataset of the first.
C15_FieldOnLastPlotOnFirst ==
  (pc = "returned" /\ Mode13 /\ commands # <<>>) =>
    \A r \in Runs :
      /\ \A f \in InRun(r, s_field) :
           /\ commands[f].plot = s_Plot_ \o LastFileBase(r) \o s_des
           /\ commands[f].geom = LastFileBase(r) \o s_des
      /\ \A p \in InRun(r, s_create_plot_1d) :
           commands[p].dataset
             = <<"C","1","(","C">> \o Str(RunCutNumber(r)) \o <<"(">>
               \o FirstFileBase(r) \o s_des \o <<")",")">>

(***************************************************************************)
(* C16: the CSV files of the exports                                       *)
(***************************************************************************)
\* C16: in every sequence Mode 1 or Mode 3 returns, two export_curves lines
\* never write the same CSV file, also when a set names the same parameter
\* more than once.
C16_ExportsToDifferentFiles ==
  (pc = "returned" /\ Mode13) =>
    \A i \in Lines(s_export) : \A j \in Lines(s_export) :
      i # j => commands[i].filename # commands[j].filename

(***************************************************************************)
(* C17: how a generator invocation ends                                    *)
(***************************************************************************)
\* C17: every invocation of a generator ends by returning a list, empty or
\* complete; no exception leaves the generator, also when a count of 0 was
\* entered for the nodes, the TDR codes or the Mode 2 pairs.
C17_NoExceptionLeavesGenerator ==
  pc # "raised" /\ raised = "none"

(***************************************************************************)
(* C18: what Mode 1 takes from the node list                               *)
(***************************************************************************)
\* where the node names stand among the texts given to a Mode 1 invocation:
\* after the count, as many as the count says
NodePositions(given) ==
  IF given = <<>> \/ IntRaises(given[1]) THEN {}
  ELSE {k \in 2..(1 + IntValue(given[1])) : k <= Len(given)}

\* two Mode 1 invocations were given the same texts except for the node names
AgreeExceptNodes(a, b) ==
  /\ Len(a) = Len(b)
  /\ \A k \in 1..Len(a) :
       IF k \in NodePositions(a)
       THEN a[k] # <<"^","C">> /\ b[k] # <<"^","C">>
       ELSE a[k] = b[k]

\* the first node name up to its first "_"
FirstPrefix(given) ==
  IF 2 \in NodePositions(given) THEN Split(given[2], "_")[1] ELSE <<>>

\* C18: the sequence of Mode 1 depends on the node list only through its
\* length and, when the last TDR is asked for, through the first node name
\* up to its first "_": two invocations given the same texts otherwise, the
\* same number of nodes and (when the flag is set) the same first-node prefix
\* return the same sequence; so the load groups written for different nodes
\* with the same TDR code name the same file, dataset and plot.
C18_NodeListOnlyByLengthAndPrefix ==
  (pc = "returned" /\ mode = <<"1">>) =>
    /\ \A earlier \in remembered :
         (/\ earlier.mode = mode
          /\ AgreeExceptNodes(earlier.inputs, inputs)
          /\ IsYes(need_last_tdr) => FirstPrefix(earlier.inputs) = FirstPrefix(inputs))
           => earlier.commands = commands
    /\ \A r \in Runs : \A i \in InRun(r, s_load) : \A j \in InRun(r, s_load) :
         (/\ RankIn(InRun(r, s_load), j) <= Len(node_names) * Len(tdr_codes)
          /\ RankIn(InRun(r, s_load), j)
               = RankIn(InRun(r, s_load), i) + Len(tdr_codes))
           => /\ commands[i].file = commands[j].file
              /\ commands[i + 1] = commands[j + 1]
              /\ commands[i + 2] = commands[j + 2]

\* the second workflow returns, for two nodes named differently from the two
\* of the first workflow but with the same first prefix and the last TDR
\* asked for, the commands the first workflow returned
C18_Witness ==
  /\ pc = "returned" /\ mode = <<"1">> /\ commands # <<>>
  /\ Len(node_names) = 2 /\ IsYes(need_last_tdr)
  /\ \E earlier \in remembered :
       /\ earlier.mode = mode
       /\ earlier.workflow < workflows
       /\ AgreeExceptNodes(earlier.inputs, inputs)
       /\ earlier.inputs[2] # inputs[2]
       /\ earlier.inputs[3] # inputs[3]
       /\ FirstPrefix(earlier.inputs) = FirstPrefix(inputs)
       /\ earlier.commands = commands

====
